---- MODULE Spec2Model ----
(***************************************************************************)
(* skellymodels: anatomical structure builder, trajectory construction,    *)
(* center-of-mass calculation and rigid-bone enforcement.                  *)
(*                                                                         *)
(* Numbers.  Marker positions are numpy float arrays of shape              *)
(* (num_frames, 3).  The model places every marker on the x axis, so a     *)
(* position (x, 0, 0) is its x coordinate, the norm of a vector is the     *)
(* absolute value of its x component and a unit direction is +1 or -1;     *)
(* the fallback direction (1, 0, 0) of the forward pass is +1.             *)
(* Coordinates are fixed-point integers.  A float is the empty sequence    *)
(* (NaN) or a one-element sequence holding the integer.                    *)
(***************************************************************************)
EXTENDS Integers, Sequences, FiniteSets, TLC

----------------------------------------------------------------------------
(* Bounds of the model *)

\* number of frames of the rigid-bone input trajectories
NumFrames == 2

\* iterations of the traversal queue loop after which a run is cut off
MaxBfsSteps == 6

----------------------------------------------------------------------------
(* Floats *)

NaN == <<>>

Num(x) == <<x>>

IsNaN(a) == a = NaN

Abs(x) == IF x < 0 THEN 0 - x ELSE x

\* float addition and subtraction: NaN in any operand gives NaN
FAdd(a, b) == IF IsNaN(a) \/ IsNaN(b) THEN NaN ELSE Num(a[1] + b[1])

FSub(a, b) == IF IsNaN(a) \/ IsNaN(b) THEN NaN ELSE Num(a[1] - b[1])

\* float times an integer factor
FScale(a, k) == IF IsNaN(a) THEN NaN ELSE Num(a[1] * k)

\* np.linalg.norm of a vector on the x axis
Norm(v) == IF IsNaN(v) THEN NaN ELSE Num(Abs(v[1]))

\* np.isfinite
IsFinite(a) == ~IsNaN(a)

----------------------------------------------------------------------------
(* Rigid-bone enforcement: inputs *)

\* the keys of marker_trajectories, in insertion order
MarkerNames == <<"A", "B", "C">>

Markers == {MarkerNames[i] : i \in 1..Len(MarkerNames)}

Frames == 1..NumFrames

\* raw coordinates lie on a grid of 4 units, so that the two halvings of two
\* successive median computations stay exact
CoordValues == {0, 4, 8}

\* marker A is the reference of the coordinate system; B and C may be
\* anywhere on the grid or untracked (NaN) in a frame
MarkerCoords(m) == IF m = "A" THEN {Num(4)} ELSE {NaN} \cup {Num(x) : x \in CoordValues}

\* 1e-6, the norm below which a direction is degenerate, in model units
DegenerateNorm == 2

\* seed of the fallback direction, np.array([1.0, 0.0, 0.0])
SeedDirection == 1

Entry(p, cs) == [parent |-> p, children |-> cs]

\* joint hierarchies (ordered parent -> children mappings) given to the
\* engine; all of them pass JointHierarchyValidator
JointHierarchies ==
    { <<Entry("A", <<"B">>), Entry("B", <<"C">>)>>,
      <<Entry("A", <<"B", "C">>)>>,
      <<Entry("A", <<"C">>)>>,
      <<Entry("B", <<"C">>), Entry("C", <<"A">>)>>,
      <<Entry("A", <<"B">>), Entry("C", <<"B">>)>>,
      <<Entry("B", <<"C">>), Entry("A", <<"B">>)>>,
      <<Entry("A", <<"B", "C">>), Entry("B", <<"C">>)>>,
      <<Entry("A", <<"B">>), Entry("B", <<"A">>)>>,
      <<Entry("A", <<>>), Entry("B", <<"C">>)>> }


VARIABLES
    marker_trajectories,  \* engines: marker name -> per-frame position
    joint_hierarchy,      \* rigid bones: ordered parent -> children mapping
    bone_stats,           \* rigid bones: (parent, child) -> median length
    queue,                \* rigid bones: traversal queue of the forward pass
    edge_connections,     \* rigid bones: edge order built by the traversal
    bfs_steps,            \* rigid bones: iterations of the queue loop so far
    rigid_marker_data,    \* rigid bones: output array [frame][marker index]
    previous_output,      \* rigid bones: output of the previous call, if any
    rb_pc,                \* rigid bones: position in enforce_rigid_bones
    center_of_mass_definitions, \* center of mass: ordered segment -> definition
    total_body_com,       \* center of mass: output array [frame][1]
    segment_com,          \* center of mass: output array [frame][segment index]
    com_pc,               \* center of mass: position in calculate_center_of_mass
    builder,              \* AnatomicalStructureBuilder: its five fields
    last_call,            \* AnatomicalStructureBuilder: the latest call and its outcome
    tracked_points_supplied, \* whether with_tracked_points was ever called
    tracked_point_names,  \* trajectory: tracked-point names of the structure
    virtual_marker_definitions, \* trajectory: virtual markers of the structure
    data,                 \* trajectory: raw array [marker index][frame]
    trajectory,           \* trajectory: outcome of the construction
    traj_pc,              \* trajectory: position in the construction
    trajectory_segment_connections, \* trajectory: its _segment_connections
    segment_data_result,  \* trajectory: outcome of the segment extraction
    aspect,               \* pipeline: the aspect's structure and trajectories
    tasks,                \* pipeline: the task classes, in declared order
    task_index,           \* pipeline: the task the loop of run() is at
    results,              \* pipeline: the latest CalculationResult
    results_log,          \* pipeline: the messages collected by run()
    executed,             \* pipeline: the tasks whose calculate() was called
    store_calls,          \* pipeline: the tasks whose store() was called
    pipeline_error,       \* pipeline: the exception that ended the call
    pipeline_pc,          \* pipeline: position in run() or store()
    previous_run,         \* pipeline: how the previous call of run() ended, if any
    add_trajectory_call   \* aspect: the latest call of add_trajectory, if any

rbVars == <<joint_hierarchy, bone_stats, queue, edge_connections, bfs_steps,
            rigid_marker_data, previous_output, rb_pc>>

comVars == <<center_of_mass_definitions, total_body_com, segment_com, com_pc>>

builderVars == <<builder, last_call, tracked_points_supplied>>

trajVars ==
    <<tracked_point_names, virtual_marker_definitions, data, trajectory, traj_pc,
      trajectory_segment_connections, segment_data_result>>

aspectVars ==
    <<aspect, tasks, task_index, results, results_log, executed, store_calls,
      pipeline_error, pipeline_pc, previous_run, add_trajectory_call>>

vars == <<marker_trajectories, rbVars, comVars, builderVars, trajVars, aspectVars>>

\* Optional values: None, or a one-element sequence holding the value
None == <<>>

Some(v) == <<v>>

\* the state of a component that is not in use
IdleRigid ==
    /\ joint_hierarchy = <<>>
    /\ bone_stats = <<>>
    /\ queue = <<>>
    /\ edge_connections = <<>>
    /\ bfs_steps = 0
    /\ rigid_marker_data = <<>>
    /\ previous_output = <<>>
    /\ rb_pc = "off"

IdleCom ==
    /\ center_of_mass_definitions = <<>>
    /\ total_body_com = <<>>
    /\ segment_com = <<>>
    /\ com_pc = "off"

IdleBuilder ==
    /\ builder = <<>>
    /\ last_call = [op |-> "off"]
    /\ tracked_points_supplied = FALSE

IdleTrajectory ==
    /\ tracked_point_names = <<>>
    /\ virtual_marker_definitions = <<>>
    /\ data = <<>>
    /\ trajectory = <<>>
    /\ traj_pc = "off"
    /\ trajectory_segment_connections = <<>>
    /\ segment_data_result = <<>>

IdlePipeline ==
    /\ aspect = <<>>
    /\ tasks = <<>>
    /\ task_index = 0
    /\ results = <<>>
    /\ results_log = <<>>
    /\ executed = <<>>
    /\ store_calls = <<>>
    /\ pipeline_error = ""
    /\ pipeline_pc = "off"
    /\ previous_run = <<>>
    /\ add_trajectory_call = <<>>

----------------------------------------------------------------------------
(* Rigid-bone enforcement: helpers *)

RECURSIVE SumSeq(_)
SumSeq(s) == IF s = <<>> THEN 0 ELSE s[1] + SumSeq(Tail(s))

Range(s) == {s[i] : i \in 1..Len(s)}

\* position of the first occurrence of x in s (list.index)
IndexOf(s, x) == CHOOSE i \in 1..Len(s) : s[i] = x /\ \A j \in 1..(i - 1) : s[j] # x

\* only the first child of a parent
FirstChildOf(hierarchy, p) ==
    IF \E i \in 1..Len(hierarchy) : hierarchy[i].parent = p /\ hierarchy[i].children # <<>>
    THEN <<hierarchy[CHOOSE i \in 1..Len(hierarchy) : hierarchy[i].parent = p].children[1]>>
    ELSE <<>>

\* dict lookup joint_hierarchy.get(parent, [])
ChildrenOf(hierarchy, p) ==
    IF \E i \in 1..Len(hierarchy) : hierarchy[i].parent = p
    THEN hierarchy[CHOOSE i \in 1..Len(hierarchy) : hierarchy[i].parent = p].children
    ELSE <<>>

\* every (parent, child) pair declared in the hierarchy
DeclaredEdges(hierarchy) ==
    UNION { {<<hierarchy[i].parent, hierarchy[i].children[j]>> :
                j \in 1..Len(hierarchy[i].children)} : i \in 1..Len(hierarchy) }

\* a root taken from the last key of the mapping
RootOfLastKey(hierarchy) == hierarchy[Len(hierarchy)].parent

\* next(iter(joint_hierarchy)): the first key of the mapping
RootOf(hierarchy) == hierarchy[1].parent

\* insert x into the ascending sequence s
RECURSIVE Insert(_, _)
Insert(x, s) ==
    IF s = <<>> THEN <<x>>
    ELSE IF x <= s[1] THEN <<x>> \o s
    ELSE <<s[1]>> \o Insert(x, Tail(s))

\* the defined (non-NaN) values of a sequence of floats, ascending
RECURSIVE SortedDefined(_)
SortedDefined(s) ==
    IF s = <<>> THEN <<>>
    ELSE IF IsNaN(s[1]) THEN SortedDefined(Tail(s))
    ELSE Insert(s[1][1], SortedDefined(Tail(s)))

\* np.median: NaN as soon as one value is NaN
MedianWithNaN(lengths) ==
    LET v == SortedDefined(lengths)
        n == Len(v)
    IN  IF n < Len(lengths) THEN NaN
        ELSE IF n % 2 = 1 THEN Num(v[(n + 1) \div 2])
        ELSE Num((v[n \div 2] + v[n \div 2 + 1]) \div 2)

\* np.nanmedian: the median of the defined values, NaN when there is none;
\* the mean of the two middle values when their number is even
NanMedian(lengths) ==
    LET v == SortedDefined(lengths)
        n == Len(v)
    IN  IF n = 0 THEN NaN
        ELSE IF n % 2 = 1 THEN Num(v[(n + 1) \div 2])
        ELSE Num((v[n \div 2] + v[n \div 2 + 1]) \div 2)

\* per-frame parent-to-child distance of one bone
BoneLengths(trajectories, parent, child) ==
    [t \in Frames |-> Norm(FSub(trajectories[child][t], trajectories[parent][t]))]

calculate_bone_lengths_and_statistics(trajectories, hierarchy) ==
    [e \in DeclaredEdges(hierarchy) |->
        [median |-> NanMedian(BoneLengths(trajectories, e[1], e[2]))]]

\* a direction that is not divided by its norm
UnitDirectionNotNormalized(vector) == vector[1]

\* the seed instead of the measured direction
UnitDirectionAlongSeed(vector) == SeedDirection

\* the unit vector vector/norm of a vector on the x axis
UnitDirection(vector) == IF vector[1] < 0 THEN 0 - 1 ELSE 1

\* a walk in which a degenerate bone takes the seed, not the direction in
\* force
RECURSIVE WalkEdgesSeedFallback(_, _, _, _, _)
WalkEdgesSeedFallback(frame_data, direction_vector, edges, stats, i) ==
    IF i > Len(edges) THEN frame_data
    ELSE LET parent == edges[i][1]
             child == edges[i][2]
             vector == FSub(frame_data[child], frame_data[parent])
             norm == Norm(vector)
             direction == IF IsFinite(norm) /\ norm[1] > DegenerateNorm
                          THEN UnitDirection(vector)
                          ELSE SeedDirection
             rigid_length == stats[<<parent, child>>].median
         IN  WalkEdgesSeedFallback([frame_data EXCEPT ![child] =
                            FAdd(frame_data[parent], FScale(rigid_length, direction))],
                       direction, edges, stats, i + 1)

\* one frame of the forward pass from edge i on: frame_data maps marker
\* names to positions, direction_vector is the direction in force
RECURSIVE WalkEdges(_, _, _, _, _)
WalkEdges(frame_data, direction_vector, edges, stats, i) ==
    IF i > Len(edges) THEN frame_data
    ELSE LET parent == edges[i][1]
             child == edges[i][2]
             vector == FSub(frame_data[child], frame_data[parent])
             norm == Norm(vector)
             direction == IF IsFinite(norm) /\ norm[1] > DegenerateNorm
                          THEN UnitDirection(vector)
                          ELSE direction_vector
             rigid_length == stats[<<parent, child>>].median
         IN  WalkEdges([frame_data EXCEPT ![child] =
                            FAdd(frame_data[parent], FScale(rigid_length, direction))],
                       direction, edges, stats, i + 1)

\* the direction in force after the walk of one frame from edge i on
RECURSIVE DirectionAfterWalk(_, _, _, _, _)
DirectionAfterWalk(frame_data, direction_vector, edges, stats, i) ==
    IF i > Len(edges) THEN direction_vector
    ELSE LET parent == edges[i][1]
             child == edges[i][2]
             vector == FSub(frame_data[child], frame_data[parent])
             norm == Norm(vector)
             direction == IF IsFinite(norm) /\ norm[1] > DegenerateNorm
                          THEN UnitDirection(vector)
                          ELSE direction_vector
             rigid_length == stats[<<parent, child>>].median
         IN  DirectionAfterWalk([frame_data EXCEPT ![child] =
                                    FAdd(frame_data[parent], FScale(rigid_length, direction))],
                                direction, edges, stats, i + 1)

\* the direction a frame starts with when it is carried over the frames
RECURSIVE CarriedDirection(_, _, _, _)
CarriedDirection(trajectories, edges, stats, t) ==
    IF t = 1 THEN SeedDirection
    ELSE DirectionAfterWalk([m \in Markers |-> trajectories[m][t - 1]],
                            CarriedDirection(trajectories, edges, stats, t - 1),
                            edges, stats, 1)

\* a pass that seeds the direction once, before the loop over the frames
RigidifyCarryingDirection(trajectories, edges, stats) ==
    LET rigid_data == [t \in Frames |->
            WalkEdges([m \in Markers |-> trajectories[m][t]],
                      CarriedDirection(trajectories, edges, stats, t),
                      edges, stats, 1)]
    IN  [m \in Markers |-> [t \in Frames |-> rigid_data[t][m]]]

\* the elements of a finite set in some order
RECURSIVE SeqOfSet(_)
SeqOfSet(S) ==
    IF S = {} THEN <<>>
    ELSE LET x == CHOOSE y \in S : TRUE
         IN  <<x>> \o SeqOfSet(S \ {x})

\* a pass that walks every bone that has statistics, the bones off the edge
\* order after those on it
RigidifyEveryBone(trajectories, edges, stats) ==
    LET every_bone == edges \o SeqOfSet(DOMAIN stats \ Range(edges))
        rigid_data == [t \in Frames |->
            WalkEdges([m \in Markers |-> trajectories[m][t]], SeedDirection,
                      every_bone, stats, 1)]
    IN  [m \in Markers |-> [t \in Frames |-> rigid_data[t][m]]]

\* every frame is walked from a copy of its raw data with a fresh seed
rigidify_forward_pass(trajectories, edges, stats) ==
    LET rigid_data == [t \in Frames |->
            WalkEdges([m \in Markers |-> trajectories[m][t]], SeedDirection,
                      edges, stats, 1)]
    IN  [m \in Markers |-> [t \in Frames |-> rigid_data[t][m]]]

\* the arrays of the caller are those of the array the pass writes to
WrittenInPlace(trajectories, rigid_data) == rigid_data

\* the arrays of the caller after the pass: np.stack builds a new array from
\* them and the pass writes to rigid_data = data.copy(), so they keep their
\* values
InputsAfterForwardPass(trajectories, rigid_data) == trajectories

\* np.stack(list(values), axis=1): array[frame][marker index]
merge_rigid_marker_data(rigid) ==
    [t \in Frames |-> [i \in 1..Len(MarkerNames) |-> rigid[MarkerNames[i]][t]]]

\* the array of a previous call read back as a name -> positions mapping
AsMarkerTrajectories(array) ==
    [m \in Markers |-> [t \in Frames |-> array[t][IndexOf(MarkerNames, m)]]]

----------------------------------------------------------------------------
(* Rigid-bone enforcement: enforce_rigid_bones as a state machine *)

\* a recording off the grid: in frame 1 B is far from A and C lies between
\* them, behind B; in the other frames B is on A and C beyond it
OrientationInput ==
    [m \in Markers |-> [t \in Frames |->
        IF m = "A" THEN Num(4)
        ELSE IF m = "B" THEN (IF t = 1 THEN Num(20) ELSE Num(4))
        ELSE (IF t = 1 THEN Num(16) ELSE Num(8))]]

RigidInputs ==
    {f \in [Markers -> [Frames -> {NaN} \cup {Num(x) : x \in CoordValues \cup {4}}]] :
        \A m \in Markers, t \in Frames : f[m][t] \in MarkerCoords(m)}
    \cup {OrientationInput}

InitRigid ==
    /\ marker_trajectories \in RigidInputs
    /\ joint_hierarchy \in JointHierarchies
    /\ bone_stats = <<>>
    /\ queue = <<>>
    /\ edge_connections = <<>>
    /\ bfs_steps = 0
    /\ rigid_marker_data = <<>>
    /\ previous_output = <<>>
    /\ rb_pc = "ready"
    /\ IdleCom /\ IdleBuilder /\ IdleTrajectory /\ IdlePipeline

\* enforce_rigid_bones up to the start of the queue loop: the bone
\* statistics, then root = first key of the hierarchy and queue = [root]
EnforceStart ==
    /\ rb_pc = "ready"
    /\ bone_stats' = calculate_bone_lengths_and_statistics(marker_trajectories, joint_hierarchy)
    /\ queue' = <<RootOf(joint_hierarchy)>>
    /\ edge_connections' = <<>>
    /\ bfs_steps' = 0
    /\ rb_pc' = "bfs"
    /\ UNCHANGED <<marker_trajectories, joint_hierarchy, rigid_marker_data, previous_output,
                   comVars, builderVars, trajVars, aspectVars>>

\* one iteration of `while queue`: pop the parent, append its edges and
\* enqueue its children; the edges of the first MaxBfsSteps iterations are
\* recorded, later iterations only move the queue
BfsStep ==
    /\ rb_pc = "bfs"
    /\ queue # <<>>
    /\ LET parent == Head(queue)
           children == ChildrenOf(joint_hierarchy, parent)
       IN  /\ edge_connections' =
                    IF bfs_steps < MaxBfsSteps
                    THEN edge_connections \o
                            [j \in 1..Len(children) |-> <<parent, children[j]>>]
                    ELSE edge_connections
           /\ queue' = Tail(queue) \o children
    /\ bfs_steps' = IF bfs_steps < MaxBfsSteps THEN bfs_steps + 1 ELSE bfs_steps
    /\ UNCHANGED <<marker_trajectories, joint_hierarchy, bone_stats,
                   rigid_marker_data, previous_output, rb_pc,
                   comVars, builderVars, trajVars, aspectVars>>

\* the queue is empty: the per-frame walk over the edge order, then the merge
ForwardPass ==
    /\ rb_pc = "bfs"
    /\ queue = <<>>
    /\ LET rigid == rigidify_forward_pass(marker_trajectories, edge_connections, bone_stats)
       IN  /\ rigid_marker_data' = merge_rigid_marker_data(rigid)
           /\ marker_trajectories' = InputsAfterForwardPass(marker_trajectories, rigid)
    /\ rb_pc' = "done"
    /\ UNCHANGED <<joint_hierarchy, bone_stats, queue,
                   edge_connections, bfs_steps, previous_output,
                   comVars, builderVars, trajVars, aspectVars>>

\* the caller applies enforce_rigid_bones, with the same hierarchy, to the
\* output of the call that just returned
EnforceAgain ==
    /\ rb_pc = "done"
    /\ previous_output = <<>>
    /\ previous_output' = rigid_marker_data
    /\ marker_trajectories' = AsMarkerTrajectories(rigid_marker_data)
    /\ rigid_marker_data' = <<>>
    /\ rb_pc' = "ready"
    /\ UNCHANGED <<joint_hierarchy, bone_stats, queue, edge_connections, bfs_steps,
                   comVars, builderVars, trajVars, aspectVars>>

NextRigid == EnforceStart \/ BfsStep \/ ForwardPass \/ EnforceAgain

SpecRigid == InitRigid /\ [][NextRigid]_vars

\* the calls on the recordings in which C stays at one place
InitRigidLive ==
    /\ InitRigid
    /\ \A t \in Frames : marker_trajectories["C"][t] = Num(8)

\* enforce_rigid_bones is a sequential function: a call that can take a
\* step takes it
SpecRigidLive == InitRigidLive /\ [][NextRigid]_vars /\ WF_vars(NextRigid)

----------------------------------------------------------------------------
(* Rigid-bone enforcement: properties *)

\* position of marker m at frame t in the returned array
RigidPosition(m, t) == rigid_marker_data[t][IndexOf(MarkerNames, m)]

\* median length of an edge in the data the current call was given
InputMedian(e) == NanMedian(BoneLengths(marker_trajectories, e[1], e[2]))

\* distance between the rigidified ends of an edge at frame t
RigidLength(e, t) == Norm(FSub(RigidPosition(e[2], t), RigidPosition(e[1], t)))

\* two floats agree within 1e-6
WithinTolerance(a, b) == ~IsNaN(a) /\ ~IsNaN(b) /\ Abs(a[1] - b[1]) <= DegenerateNorm

\* number of times marker m is listed as a child in the hierarchy
ChildCount(hierarchy, m) ==
    SumSeq([i \in 1..Len(hierarchy) |->
        Cardinality({j \in 1..Len(hierarchy[i].children) : hierarchy[i].children[j] = m})])

\* markers reachable from the set S along declared edges, in at most n rounds
RECURSIVE ReachableFrom(_, _, _)
ReachableFrom(hierarchy, S, n) ==
    IF n = 0 THEN S
    ELSE ReachableFrom(hierarchy,
            S \cup {e[2] : e \in {d \in DeclaredEdges(hierarchy) : d[1] \in S}}, n - 1)

\* the hierarchy is a tree rooted at its first key: the root is nobody's
\* child, no marker is listed as a child twice, and every declared edge
\* starts at a marker reachable from the root
IsTreeRootedAtFirstKey(hierarchy) ==
    /\ ChildCount(hierarchy, hierarchy[1].parent) = 0
    /\ \A m \in Markers : ChildCount(hierarchy, m) <= 1
    /\ \A e \in DeclaredEdges(hierarchy) :
          e[1] \in ReachableFrom(hierarchy, {hierarchy[1].parent}, Cardinality(Markers))

\* C1 as stated: after enforce_rigid_bones on any trajectories and any
\* accepted hierarchy, every declared edge has, in every frame, its
\* pre-enforcement median length (within 1e-6).
C1_AnyHierarchyEdgeLengths ==
    rb_pc = "done" =>
        \A e \in DeclaredEdges(joint_hierarchy), t \in Frames :
            WithinTolerance(RigidLength(e, t), InputMedian(e))

\* C1 amended: when the hierarchy is a tree rooted at its first key and every
\* declared edge has a defined median, every declared edge has its
\* pre-enforcement median length (within 1e-6) in every frame in which the
\* root's position is defined.
C1_TreeEdgeLengths ==
    (/\ rb_pc = "done"
     /\ IsTreeRootedAtFirstKey(joint_hierarchy)
     /\ \A e \in DeclaredEdges(joint_hierarchy) : ~IsNaN(InputMedian(e)))
    => \A e \in DeclaredEdges(joint_hierarchy), t \in Frames :
          ~IsNaN(marker_trajectories[joint_hierarchy[1].parent][t])
              => WithinTolerance(RigidLength(e, t), InputMedian(e))

\* C1 witness: a first call on the chain A -> B -> C has returned, every
\* position is defined, and in some frame both B and C were moved.
C1_Witness ==
    /\ rb_pc = "done"
    /\ previous_output = <<>>
    /\ joint_hierarchy = <<Entry("A", <<"B">>), Entry("B", <<"C">>)>>
    /\ \A m \in Markers, t \in Frames : ~IsNaN(marker_trajectories[m][t])
    /\ \E t \in Frames :
          /\ RigidPosition("B", t) # marker_trajectories["B"][t]
          /\ RigidPosition("C", t) # marker_trajectories["C"][t]

\* C2: a second enforce_rigid_bones call, with the same hierarchy, on the
\* output of the first returns positions equal to that output, for every
\* marker and every frame.
C2_Idempotent ==
    (rb_pc = "done" /\ previous_output # <<>>) =>
        \A m \in Markers, t \in Frames :
            RigidPosition(m, t) = previous_output[t][IndexOf(MarkerNames, m)]

\* C3: the root marker (the first key of the hierarchy) has, in every frame,
\* the same position in the output as in the input.
C3_RootUnchanged ==
    rb_pc = "done" =>
        \A t \in Frames :
            RigidPosition(joint_hierarchy[1].parent, t)
                = marker_trajectories[joint_hierarchy[1].parent][t]

\* C3 witness: a call has returned an array in which some marker other than
\* the root was moved.
C3_Witness ==
    /\ rb_pc = "done"
    /\ \E m \in Markers \ {joint_hierarchy[1].parent}, t \in Frames :
          /\ ~IsNaN(marker_trajectories[m][t])
          /\ RigidPosition(m, t) # marker_trajectories[m][t]

\* the markers reachable from the root by parent-to-child entries
ReachableFromRoot ==
    ReachableFrom(joint_hierarchy, {joint_hierarchy[1].parent}, Cardinality(Markers))

\* C18: every marker that is not reachable from the root by parent-to-child
\* entries of the hierarchy has, in every frame, the same position in the
\* output of enforce_rigid_bones as in its input.
C18_UnreachableMarkersUnchanged ==
    rb_pc = "done" =>
        \A m \in Markers \ ReachableFromRoot, t \in Frames :
            RigidPosition(m, t) = marker_trajectories[m][t]

\* C18 witness: a call has returned for a hierarchy that declares a bone to
\* an unreachable child whose tracked length is not its median in some frame.
C18_Witness ==
    /\ rb_pc = "done"
    /\ \E e \in DeclaredEdges(joint_hierarchy), t \in Frames :
          /\ e[2] \notin ReachableFromRoot
          /\ IsFinite(BoneLengths(marker_trajectories, e[1], e[2])[t])
          /\ BoneLengths(marker_trajectories, e[1], e[2])[t]
                # NanMedian(BoneLengths(marker_trajectories, e[1], e[2]))

\* the norm of a vector is finite and above 1e-6
WellDefined(vector) == IsFinite(Norm(vector)) /\ Norm(vector)[1] > DegenerateNorm

\* the direction of a vector on the x axis, None for a zero or undefined one
DirectionOf(vector) ==
    IF IsNaN(vector) \/ vector[1] = 0 THEN None
    ELSE Some(IF vector[1] < 0 THEN 0 - 1 ELSE 1)

\* direction from the rigidified parent to the rigidified child
RigidDirection(e, t) == DirectionOf(FSub(RigidPosition(e[2], t), RigidPosition(e[1], t)))

\* vector from the raw parent to the raw child
RawVector(e, t) == FSub(marker_trajectories[e[2]][t], marker_trajectories[e[1]][t])

\* vector from the rigidified parent to the raw child
VectorFromRigidParent(e, t) == FSub(marker_trajectories[e[2]][t], RigidPosition(e[1], t))

\* C21 as stated: for every declared edge and every frame in which the
\* direction from the raw parent to the raw child is well-defined, the
\* direction from the rigidified parent to the rigidified child equals it,
\* also when the parent was moved.
C21_RawOrientationPreserved ==
    rb_pc = "done" =>
        \A e \in DeclaredEdges(joint_hierarchy), t \in Frames :
            WellDefined(RawVector(e, t)) => RigidDirection(e, t) = DirectionOf(RawVector(e, t))

\* C21 amended: when the hierarchy is a tree rooted at its first key, for
\* every declared edge with a defined, positive median length and every
\* frame in which the vector from the rigidified parent to the raw child
\* has a finite norm above 1e-6, the direction from the rigidified parent
\* to the rigidified child is the direction of that vector.
C21_OrientationFromRigidParent ==
    (rb_pc = "done" /\ IsTreeRootedAtFirstKey(joint_hierarchy)) =>
        \A e \in DeclaredEdges(joint_hierarchy), t \in Frames :
            (/\ WellDefined(VectorFromRigidParent(e, t))
             /\ IsFinite(InputMedian(e))
             /\ InputMedian(e)[1] > 0)
            => RigidDirection(e, t) = DirectionOf(VectorFromRigidParent(e, t))

\* C21 witness: on the chain A -> B -> C the parent B was moved past the raw
\* position of C, so that the bone B -> C points the other way than measured.
C21_Witness ==
    /\ rb_pc = "done"
    /\ previous_output = <<>>
    /\ joint_hierarchy = <<Entry("A", <<"B">>), Entry("B", <<"C">>)>>
    /\ \E t \in Frames :
          LET e == <<"B", "C">>
          IN  /\ RigidPosition("B", t) # marker_trajectories["B"][t]
              /\ WellDefined(RawVector(e, t))
              /\ WellDefined(VectorFromRigidParent(e, t))
              /\ InputMedian(e)[1] > 0
              /\ DirectionOf(VectorFromRigidParent(e, t)) # DirectionOf(RawVector(e, t))
              /\ RigidDirection(e, t) = DirectionOf(VectorFromRigidParent(e, t))

\* the input of the call with the positions of frame u replaced by others
WithOtherFrame(u, positions) ==
    [m \in Markers |-> [t \in Frames |->
        IF t = u THEN positions[m] ELSE marker_trajectories[m][t]]]

\* the recordings that differ from the input of the call in the frame that
\* follows t (the first frame after the last) and give every declared edge
\* the same median
SameFrameAndMedians(t) ==
    {other \in {WithOtherFrame(u, positions) :
                    u \in {(t % NumFrames) + 1} \ {t},
                    positions \in {f \in [Markers -> UNION {MarkerCoords(m) : m \in Markers}] :
                                    \A m \in Markers : f[m] \in MarkerCoords(m)}} :
        calculate_bone_lengths_and_statistics(other, joint_hierarchy) = bone_stats}

\* C22: the output at frame t is decided by the raw positions at frame t and
\* the edge medians: a recording that agrees with the input at frame t and
\* has the same edge medians gets the same positions at frame t, whatever
\* its other frames are (checked on the first call of a behaviour).
C22_FramesIndependent ==
    (rb_pc = "done" /\ previous_output = <<>>) =>
        \A t \in Frames :
            \A other \in SameFrameAndMedians(t) :
                merge_rigid_marker_data(
                    rigidify_forward_pass(other, edge_connections, bone_stats))[t]
                  = rigid_marker_data[t]

\* C22 witness: the only bone is degenerate in a frame whose previous frame
\* adopted the direction opposite to the seed, the child is placed along
\* the seed, and another recording with another previous frame agrees with
\* the input at this frame and in the medians.
C22_Witness ==
    /\ rb_pc = "done"
    /\ previous_output = <<>>
    /\ Len(edge_connections) = 1
    /\ \E t \in Frames \ {1} :
          LET e == edge_connections[1]
          IN  /\ IsFinite(RawVector(e, t))
              /\ ~WellDefined(RawVector(e, t))
              /\ DirectionOf(RawVector(e, t - 1)) = Some(0 - 1)
              /\ WellDefined(RawVector(e, t - 1))
              /\ InputMedian(e)[1] > 0
              /\ RigidDirection(e, t) = Some(SeedDirection)
              /\ \E other \in SameFrameAndMedians(t) :
                    \E u \in Frames : other[e[2]][u] # marker_trajectories[e[2]][u]

\* the largest element of a non-empty set of integers
MaxOf(S) == CHOOSE x \in S : \A y \in S : y <= x

\* the edges of the order before edge i that write marker m
WritersBefore(m, i) == {j \in 1..(i - 1) : edge_connections[j][2] = m}

\* position of marker m at frame t when the walk reaches edge i, and the
\* position edge i gives to its child
RECURSIVE PositionBeforeEdge(_, _, _)
RECURSIVE PlacedByEdge(_, _)
RECURSIVE WalkVector(_, _)

PositionBeforeEdge(m, t, i) ==
    IF WritersBefore(m, i) = {} THEN marker_trajectories[m][t]
    ELSE PlacedByEdge(t, MaxOf(WritersBefore(m, i)))

\* vector from the current position of the parent of edge i to the current
\* position of its child
WalkVector(t, i) ==
    FSub(PositionBeforeEdge(edge_connections[i][2], t, i),
         PositionBeforeEdge(edge_connections[i][1], t, i))

\* the direction adopted at the most recent edge before i that had a
\* well-defined direction in frame t, the seed if there is none
FallbackDirection(t, i) ==
    LET adopted == {j \in 1..(i - 1) : WellDefined(WalkVector(t, j))}
    IN  IF adopted = {} THEN SeedDirection
        ELSE DirectionOf(WalkVector(t, MaxOf(adopted)))[1]

PlacedByEdge(t, i) ==
    FAdd(PositionBeforeEdge(edge_connections[i][1], t, i),
         FScale(bone_stats[edge_connections[i]].median,
                IF WellDefined(WalkVector(t, i)) THEN DirectionOf(WalkVector(t, i))[1]
                ELSE FallbackDirection(t, i)))

\* edge i is the last edge of the order that writes its child
LastWriter(i) ==
    \A j \in (i + 1)..Len(edge_connections) : edge_connections[j][2] # edge_connections[i][2]

\* C23: when the walk of frame t reaches an edge whose vector from the
\* parent's current position to the child's position has a norm that is
\* not finite or not above 1e-6, the child is placed at parent + median * d,
\* d being the direction adopted at the most recent earlier edge of that
\* frame with a well-defined direction, or the seed (1,0,0) if there is
\* none; the call returns for such a frame.
C23_DegenerateBoneFallsBack ==
    rb_pc = "done" =>
        \A t \in Frames, i \in 1..Len(edge_connections) :
            (~WellDefined(WalkVector(t, i)) /\ LastWriter(i)) =>
                RigidPosition(edge_connections[i][2], t)
                    = FAdd(PositionBeforeEdge(edge_connections[i][1], t, i),
                           FScale(bone_stats[edge_connections[i]].median,
                                  FallbackDirection(t, i)))

\* C23 witness: a degenerate bone follows an earlier bone of the same frame
\* that adopted the direction opposite to the seed, and is placed along it.
C23_Witness ==
    /\ rb_pc = "done"
    /\ \E t \in Frames, i \in 2..Len(edge_connections) :
          /\ ~WellDefined(WalkVector(t, i))
          /\ IsFinite(WalkVector(t, i))
          /\ LastWriter(i)
          /\ FallbackDirection(t, i) = 0 - 1
          /\ IsFinite(bone_stats[edge_connections[i]].median)
          /\ bone_stats[edge_connections[i]].median[1] > 0
          /\ RigidDirection(edge_connections[i], t) = Some(0 - 1)

\* C24: for a hierarchy that is a tree rooted at its first key, the edge
\* order of the traversal holds every declared (parent, child) edge exactly
\* once, and every edge whose parent is not the root comes after the edge
\* whose child is that parent.
C24_EdgeOrderParentsFirst ==
    (rb_pc = "done" /\ IsTreeRootedAtFirstKey(joint_hierarchy)) =>
        /\ \A e \in DeclaredEdges(joint_hierarchy) :
              Cardinality({i \in 1..Len(edge_connections) : edge_connections[i] = e}) = 1
        /\ Range(edge_connections) \subseteq DeclaredEdges(joint_hierarchy)
        /\ \A i \in 1..Len(edge_connections) :
              edge_connections[i][1] # joint_hierarchy[1].parent =>
                  \E j \in 1..(i - 1) : edge_connections[j][2] = edge_connections[i][1]

\* C24 witness: the traversal of a tree has returned an order in which some
\* edge starts at a marker other than the root.
C24_Witness ==
    /\ rb_pc = "done"
    /\ IsTreeRootedAtFirstKey(joint_hierarchy)
    /\ \E i \in 1..Len(edge_connections) :
          edge_connections[i][1] # joint_hierarchy[1].parent

\* the frames in which both markers of an edge have a defined position
DefinedFrames(e) ==
    {t \in Frames : IsFinite(marker_trajectories[e[1]][t]) /\ IsFinite(marker_trajectories[e[2]][t])}

\* parent-to-child distance of edge e in a frame of DefinedFrames(e)
RawLength(e, t) == Abs(marker_trajectories[e[2]][t][1] - marker_trajectories[e[1]][t][1])

\* the k-th smallest distance of edge e over its defined frames
KthLength(e, k) ==
    LET lengths == {RawLength(e, t) : t \in DefinedFrames(e)}
    IN  CHOOSE x \in lengths :
            /\ Cardinality({t \in DefinedFrames(e) : RawLength(e, t) < x}) < k
            /\ Cardinality({t \in DefinedFrames(e) : RawLength(e, t) <= x}) >= k

\* the statistics in use are those of the input of the current call
StatisticsComputed == rb_pc \in {"bfs", "done"}

\* C25: there is a statistic for every declared (parent, child) pair,
\* reachable from the root or not, and its median is the median of the
\* parent-to-child distance over exactly the frames in which both markers
\* are defined (the mean of the two middle distances when their number is
\* even, NaN when there is no such frame).
C25_MedianOverDefinedFrames ==
    StatisticsComputed =>
        /\ DOMAIN bone_stats = DeclaredEdges(joint_hierarchy)
        /\ \A e \in DeclaredEdges(joint_hierarchy) :
              LET n == Cardinality(DefinedFrames(e))
              IN  bone_stats[e].median =
                    IF n = 0 THEN NaN
                    ELSE Num((KthLength(e, (n + 1) \div 2) + KthLength(e, n \div 2 + 1)) \div 2)

\* C25 witness: a bone whose child is not reachable from the root has a
\* frame with an undefined marker and a defined, non-zero median.
C25_Witness ==
    /\ StatisticsComputed
    /\ \E e \in DeclaredEdges(joint_hierarchy) :
          /\ e[2] \notin ReachableFromRoot
          /\ DefinedFrames(e) # Frames
          /\ DefinedFrames(e) # {}
          /\ bone_stats[e].median \notin {NaN, Num(0)}

\* C27: for every accepted hierarchy, cyclic ones and ones with a marker
\* under two parents included, the queue loop of a call reaches an empty
\* queue and the call returns.
C27_EnforcementTerminates == (rb_pc = "bfs") ~> (rb_pc = "done")

----------------------------------------------------------------------------
(* Center of mass: inputs *)

\* segment connections of the structure: segment name -> proximal, distal
SegmentConnections ==
    << [name |-> "AB", proximal |-> "A", distal |-> "B"],
       [name |-> "BC", proximal |-> "B", distal |-> "C"] >>

\* raw coordinates lie on a grid of 100 units, so that two successive
\* multiplications by a fraction given in tenths stay exact
ComCoordValues == {0, 100}

ComInputs == [Markers -> [Frames -> {NaN} \cup {Num(x) : x \in ComCoordValues}]]

ComDefinition(s, l, p) ==
    [segment |-> s, segment_com_length |-> l, segment_com_percentage |-> p]

\* (segment_com_length, segment_com_percentage) pairs, in tenths
ComDefinitionValues == {<<4, 6>>, <<10, 4>>, <<0, 0>>}

\* ordered center-of-mass definitions over the segments of the structure
ComDefinitionInputs ==
    LET One(s) == {<<ComDefinition(s, v[1], v[2])>> : v \in ComDefinitionValues}
    IN  One("AB") \cup One("BC")
        \cup {a \o b : a \in One("AB"), b \in One("BC")}
        \cup {b \o a : a \in One("AB"), b \in One("BC")}

----------------------------------------------------------------------------
(* Center of mass: calculate_center_of_mass *)

\* a product in which a zero fraction absorbs an undefined factor
FTenthsZeroAbsorbs(a, k) ==
    IF k = 0 THEN Num(0)
    ELSE IF IsNaN(a) THEN NaN
    ELSE Num((a[1] * k) \div 10)

\* float times a fraction given in tenths
FTenths(a, k) == IF IsNaN(a) THEN NaN ELSE Num((a[1] * k) \div 10)

\* dict.get on a name -> positions mapping
GetMarker(trajectories, m) ==
    IF m \in DOMAIN trajectories THEN Some(trajectories[m]) ELSE None

\* Trajectory.segment_data: segment name -> proximal and distal positions
segment_data(trajectories, connections) ==
    [i \in 1..Len(connections) |->
        [name |-> connections[i].name,
         proximal |-> GetMarker(trajectories, connections[i].proximal),
         distal |-> GetMarker(trajectories, connections[i].distal)]]

\* segment_positions[segment_name]
SegmentPositionsOf(segment_positions, s) ==
    segment_positions[CHOOSE i \in 1..Len(segment_positions) : segment_positions[i].name = s]

\* a center of mass measured from the distal end
SegmentComFromDistal(proximal, distal, com_length) ==
    FAdd(distal, FTenths(FSub(proximal, distal), com_length))

\* segment_com = proximal + (distal - proximal) * com_length
SegmentCom(proximal, distal, com_length) ==
    FAdd(proximal, FTenths(FSub(distal, proximal), com_length))

\* segment name -> per-frame center of mass, in the order of the definitions
calculate_all_segments_com(segment_positions, definitions) ==
    [i \in 1..Len(definitions) |->
        LET positions == SegmentPositionsOf(segment_positions, definitions[i].segment)
        IN  [segment |-> definitions[i].segment,
             com |-> [t \in Frames |->
                        SegmentCom(positions.proximal[1][t], positions.distal[1][t],
                                   definitions[i].segment_com_length)]]]

\* segment_center_of_mass_data.get(segment_name)
SegmentComOf(segment_com_data, s) ==
    segment_com_data[CHOOSE i \in 1..Len(segment_com_data) : segment_com_data[i].segment = s].com

\* an assignment in place of the accumulation
AssignWeighted(total, com, percentage) == FTenths(com, percentage)

\* total_body_com += segment_com * segment_mass_percentage
AddWeighted(total, com, percentage) == FAdd(total, FTenths(com, percentage))

\* the loop over the definitions from definition i on, for one frame
RECURSIVE TotalFrom(_, _, _, _, _)
TotalFrom(total, segment_com_data, definitions, i, t) ==
    IF i > Len(definitions) THEN total
    ELSE TotalFrom(AddWeighted(total,
                               SegmentComOf(segment_com_data, definitions[i].segment)[t],
                               definitions[i].segment_com_percentage),
                   segment_com_data, definitions, i + 1, t)

\* array of shape (num_frames, 1), started from np.zeros
calculate_total_body_center_of_mass(segment_com_data, definitions) ==
    [t \in Frames |-> <<TotalFrom(Num(0), segment_com_data, definitions, 1, t)>>]

\* np.stack(list(values), axis=1): array[frame][segment index]
create_array_of_segment_com_data(segment_com_data) ==
    [t \in Frames |-> [i \in 1..Len(segment_com_data) |-> segment_com_data[i].com[t]]]

InitCom ==
    /\ marker_trajectories \in ComInputs
    /\ center_of_mass_definitions \in ComDefinitionInputs
    /\ total_body_com = <<>>
    /\ segment_com = <<>>
    /\ com_pc = "ready"
    /\ IdleRigid /\ IdleBuilder /\ IdleTrajectory /\ IdlePipeline

\* calculate_center_of_mass on the segment positions of the trajectory
CalculateCenterOfMass ==
    /\ com_pc = "ready"
    /\ LET segment_com_data ==
               calculate_all_segments_com(
                   segment_data(marker_trajectories, SegmentConnections),
                   center_of_mass_definitions)
       IN  /\ total_body_com' = calculate_total_body_center_of_mass(
                                    segment_com_data, center_of_mass_definitions)
           /\ segment_com' = create_array_of_segment_com_data(segment_com_data)
    /\ com_pc' = "done"
    /\ UNCHANGED <<marker_trajectories, center_of_mass_definitions,
                   rbVars, builderVars, trajVars, aspectVars>>

NextCom == CalculateCenterOfMass

SpecCom == InitCom /\ [][NextCom]_vars

----------------------------------------------------------------------------
(* Center of mass: properties *)

\* the connection of segment s in the structure
ConnectionOf(s) ==
    SegmentConnections[CHOOSE i \in 1..Len(SegmentConnections) : SegmentConnections[i].name = s]

\* sum of a sequence of floats
RECURSIVE FSum(_)
FSum(s) == IF s = <<>> THEN Num(0) ELSE FAdd(s[1], FSum(Tail(s)))

\* C4: for every segment with a center-of-mass definition and every frame,
\* the returned segment center of mass equals
\* proximal + length_fraction * (distal - proximal), taken on that segment's
\* marker positions at that frame.
C4_SegmentComFormula ==
    com_pc = "done" =>
        \A i \in 1..Len(center_of_mass_definitions), t \in Frames :
            LET d == center_of_mass_definitions[i]
                P == marker_trajectories[ConnectionOf(d.segment).proximal][t]
                D == marker_trajectories[ConnectionOf(d.segment).distal][t]
            IN  segment_com[t][i] =
                    IF IsNaN(P) \/ IsNaN(D) THEN NaN
                    ELSE Num(P[1] + (d.segment_com_length * (D[1] - P[1])) \div 10)

\* C4 witness: a segment whose ends differ in some frame has a center of
\* mass strictly between them.
C4_Witness ==
    /\ com_pc = "done"
    /\ \E i \in 1..Len(center_of_mass_definitions), t \in Frames :
          LET d == center_of_mass_definitions[i]
              P == marker_trajectories[ConnectionOf(d.segment).proximal][t]
              D == marker_trajectories[ConnectionOf(d.segment).distal][t]
          IN  /\ ~IsNaN(P) /\ ~IsNaN(D) /\ P # D
              /\ segment_com[t][i] # P /\ segment_com[t][i] # D

\* C5: for every frame, the total-body center of mass equals the sum over
\* the defined segments of segment center of mass times mass percentage,
\* with no normalisation by the sum of the percentages.
C5_TotalBodyComIsWeightedSum ==
    com_pc = "done" =>
        \A t \in Frames :
            total_body_com[t][1] =
                FSum([i \in 1..Len(center_of_mass_definitions) |->
                        FTenths(segment_com[t][i],
                                center_of_mass_definitions[i].segment_com_percentage)])

\* C5 witness: two segments whose percentages do not sum to 1 contribute,
\* both with a non-zero term, to a defined total.
C5_Witness ==
    /\ com_pc = "done"
    /\ Len(center_of_mass_definitions) = 2
    /\ center_of_mass_definitions[1].segment_com_percentage
         + center_of_mass_definitions[2].segment_com_percentage # 10
    /\ \E t \in Frames :
          /\ ~IsNaN(total_body_com[t][1])
          /\ \A i \in 1..2 :
                FTenths(segment_com[t][i],
                        center_of_mass_definitions[i].segment_com_percentage) \notin {NaN, Num(0)}

\* an end of the segment of definition i is undefined at frame t
EndUndefined(i, t) ==
    LET connection == ConnectionOf(center_of_mass_definitions[i].segment)
    IN  \/ IsNaN(marker_trajectories[connection.proximal][t])
        \/ IsNaN(marker_trajectories[connection.distal][t])

\* C19: at a frame where the proximal or distal position of a segment with
\* a center-of-mass definition is NaN, the center of mass of that segment
\* and the total-body center of mass are NaN, whatever the length fraction
\* and the mass percentage; at a frame where all these positions are
\* defined, every segment center of mass and the total are defined.
C19_NaNPropagates ==
    com_pc = "done" =>
        \A t \in Frames :
            /\ \A i \in 1..Len(center_of_mass_definitions) :
                  EndUndefined(i, t) =>
                      /\ IsNaN(segment_com[t][i])
                      /\ IsNaN(total_body_com[t][1])
            /\ (\A i \in 1..Len(center_of_mass_definitions) : ~EndUndefined(i, t)) =>
                      /\ \A i \in 1..Len(center_of_mass_definitions) :
                            IsFinite(segment_com[t][i])
                      /\ IsFinite(total_body_com[t][1])

\* C19 witness: a segment with length fraction 0 and mass percentage 0 has
\* an undefined distal end and a defined proximal end in one frame, and all
\* ends are defined in another frame.
C19_Witness ==
    /\ com_pc = "done"
    /\ \E i \in 1..Len(center_of_mass_definitions), t \in Frames :
          LET d == center_of_mass_definitions[i]
          IN  /\ d.segment_com_length = 0
              /\ d.segment_com_percentage = 0
              /\ IsNaN(marker_trajectories[ConnectionOf(d.segment).distal][t])
              /\ IsFinite(marker_trajectories[ConnectionOf(d.segment).proximal][t])
    /\ \E t \in Frames :
          /\ \A i \in 1..Len(center_of_mass_definitions) : ~EndUndefined(i, t)
          /\ IsFinite(total_body_com[t][1])

----------------------------------------------------------------------------
(* AnatomicalStructureBuilder: inputs *)

IsNone(o) == o = None

\* Python truthiness of an optional list or dict: None and empty are falsy
Falsy(o) == IsNone(o) \/ Len(o[1]) = 0

\* a virtual-marker definition; weights are in units of 1/10000
VirtualMarker(n, ns, ws) == [name |-> n, marker_names |-> ns, marker_weights |-> ws]

TrackedPointInputs == {<<>>, <<"A", "B">>, <<"A", "B", "C">>}

\* weight lists of a two-component definition: sums of 1, 1.1, 1 again, the
\* two ends of the tolerance, one step outside each end, and a list of the
\* wrong length
WeightInputs ==
    {<<5000, 5000>>, <<5000, 6000>>, <<4999, 5001>>, <<4900, 5000>>,
     <<5100, 5000>>, <<4899, 5000>>, <<5101, 5000>>, <<10000>>}

\* virtual-marker mappings given to with_virtual_markers, in definition order
VirtualMarkerDicts ==
    {<<>>}
    \cup {<<VirtualMarker("V", <<"A", "B">>, ws)>> : ws \in WeightInputs}
    \cup { <<VirtualMarker("V", <<"V">>, <<10000>>)>>,
           <<VirtualMarker("V", <<"A", "X">>, <<5000, 5000>>)>>,
           <<VirtualMarker("V", <<"C">>, <<10000>>)>> }
    \cup { <<VirtualMarker("A", <<"A">>, <<10000>>)>>,
           <<VirtualMarker("V", <<"A", "B">>, <<5000, 5000>>),
             VirtualMarker("W", <<"V", "A">>, <<5000, 5000>>)>>,
           <<VirtualMarker("W", <<"V", "A">>, <<5000, 5000>>),
             VirtualMarker("V", <<"A", "B">>, <<5000, 5000>>)>>,
           <<VirtualMarker("V", <<"A", "B">>, <<5000, 5000>>),
             VirtualMarker("W", <<"V", "A">>, <<5000, 6000>>)>>,
           <<VirtualMarker("V", <<"A", "B">>, <<5000, 5000>>),
             VirtualMarker("W", <<"W", "A">>, <<5000, 5000>>)>> }

Connection(n, p, d) == [name |-> n, proximal |-> p, distal |-> d]

SegmentConnectionDicts ==
    { <<>>,
      <<Connection("AB", "A", "B")>>,
      <<Connection("AB", "A", "B"), Connection("BV", "B", "V")>>,
      <<Connection("AC", "A", "C")>>,
      <<Connection("AX", "A", "X")>> }

CenterOfMassDicts ==
    { <<>>,
      <<ComDefinition("AB", 4, 6)>>,
      <<ComDefinition("AB", 4, 6), ComDefinition("BV", 10, 4)>>,
      <<ComDefinition("ZZ", 4, 6)>> }

JointHierarchyDicts ==
    { <<Entry("A", <<"B">>)>>,
      <<Entry("A", <<"B">>), Entry("B", <<"V">>)>>,
      <<Entry("A", <<"C">>)>>,
      <<Entry("X", <<"A">>)>> }

\* an optional argument: None or one of the given values
Optional(S) == {None} \cup {Some(v) : v \in S}

----------------------------------------------------------------------------
(* AnatomicalStructureBuilder: validators *)

\* 0.99 and 1.01 in units of 1/10000
MinWeightSum == 9900

MaxWeightSum == 10100

\* a weight-sum test with the bounds excluded
WeightSumInsideBounds(weight_sum) == MinWeightSum < weight_sum /\ weight_sum < MaxWeightSum

\* 0.99 <= weight_sum <= 1.01
WeightSumOk(weight_sum) == MinWeightSum <= weight_sum /\ weight_sum <= MaxWeightSum

\* a valid set that holds every virtual-marker name from the start
AllNamesValid(tracked, virtual_markers) ==
    Range(tracked) \cup {virtual_markers[i].name : i \in 1..Len(virtual_markers)}

\* valid_marker_names = set(tracked_point_names)
InitialValidNames(tracked, virtual_markers) == Range(tracked)

\* the loop over the virtual markers from definition i on, with the growing
\* set of valid names; TRUE when no ValueError is raised
RECURSIVE VirtualMarkersOkFrom(_, _, _)
VirtualMarkersOkFrom(virtual_markers, valid_marker_names, i) ==
    IF i > Len(virtual_markers) THEN TRUE
    ELSE LET vm == virtual_markers[i]
         IN  /\ Len(vm.marker_names) = Len(vm.marker_weights)
             /\ \A j \in 1..Len(vm.marker_names) : vm.marker_names[j] \in valid_marker_names
             /\ WeightSumOk(SumSeq(vm.marker_weights))
             /\ VirtualMarkersOkFrom(virtual_markers, valid_marker_names \cup {vm.name}, i + 1)

\* VirtualMarkerValidator.validate_virtual_markers
validate_virtual_markers(virtual_markers, tracked) ==
    VirtualMarkersOkFrom(virtual_markers, InitialValidNames(tracked, virtual_markers), 1)

\* SegmentConnectionsValidator.validate_segment_connections
validate_segment_connections(connections, marker_names) ==
    \A i \in 1..Len(connections) :
        /\ connections[i].proximal \in Range(marker_names)
        /\ connections[i].distal \in Range(marker_names)

\* CenterOfMassValidator.validate_center_of_mass
validate_center_of_mass(definitions, connections) ==
    \A i \in 1..Len(definitions) :
        definitions[i].segment \in {connections[j].name : j \in 1..Len(connections)}

\* JointHierarchyValidator.validate_joint_hierarchy
validate_joint_hierarchy(hierarchy, marker_names) ==
    \A i \in 1..Len(hierarchy) :
        /\ hierarchy[i].parent \in Range(marker_names)
        /\ \A j \in 1..Len(hierarchy[i].children) :
              hierarchy[i].children[j] \in Range(marker_names)

\* a structure constructed without its cross-field checks
NoCrossFieldChecks(s) == TRUE

\* AnatomicalStructure._cross_field_checks; TRUE when no ValueError is raised
cross_field_checks(s) ==
    LET tracked == IF IsNone(s.tracked_point_names) THEN <<>> ELSE s.tracked_point_names[1]
        virtual == IF Falsy(s.virtual_markers_definitions) THEN <<>>
                   ELSE s.virtual_markers_definitions[1]
        valid_marker_names ==
            Range(tracked) \cup {virtual[i].name : i \in 1..Len(virtual)}
    IN  /\ VirtualMarkersOkFrom(virtual, Range(tracked), 1)
        /\ Falsy(s.segment_connections) \/
              \A i \in 1..Len(s.segment_connections[1]) :
                  /\ s.segment_connections[1][i].proximal \in valid_marker_names
                  /\ s.segment_connections[1][i].distal \in valid_marker_names
        /\ Falsy(s.center_of_mass_definitions) \/
              (/\ ~Falsy(s.segment_connections)
               /\ validate_center_of_mass(s.center_of_mass_definitions[1],
                                          s.segment_connections[1]))
        /\ Falsy(s.joint_hierarchy) \/
              \A i \in 1..Len(s.joint_hierarchy[1]) :
                  /\ s.joint_hierarchy[1][i].parent \in valid_marker_names
                  /\ \A j \in 1..Len(s.joint_hierarchy[1][i].children) :
                        s.joint_hierarchy[1][i].children[j] \in valid_marker_names

----------------------------------------------------------------------------
(* AnatomicalStructureBuilder: the builder as a state machine *)

NewBuilder ==
    [tracked_point_names |-> None,
     virtual_markers_definitions |-> None,
     segment_connections |-> None,
     center_of_mass_definitions |-> None,
     joint_hierarchy |-> None]

\* the latest call: its name, its argument, the exception it raised ("" when
\* it returned) and, for build(), the structure it returned
Call(op, arg, error, returned) ==
    [op |-> op, arg |-> arg, error |-> error, returned |-> returned]

InitBuilder ==
    /\ builder = NewBuilder
    /\ last_call = Call("__init__", None, "", None)
    /\ tracked_points_supplied = FALSE
    /\ marker_trajectories = <<>>
    /\ IdleRigid /\ IdleCom /\ IdleTrajectory /\ IdlePipeline

\* the _marker_names property: None stands for the ValueError it raises
MarkerNamesOf(b) ==
    IF Falsy(b.tracked_point_names) THEN None
    ELSE Some(b.tracked_point_names[1] \o
              (IF Falsy(b.virtual_markers_definitions) THEN <<>>
               ELSE [i \in 1..Len(b.virtual_markers_definitions[1]) |->
                        b.virtual_markers_definitions[1][i].name]))

\* a prerequisite test that only looks for None
SegmentConnectionsIsNone(b) == IsNone(b.segment_connections)

\* if not self.segment_connections
SegmentConnectionsMissing(b) == Falsy(b.segment_connections)

\* a build() that never refuses
BuildNeverRefused(b) == FALSE

\* if not self.tracked_point_names, in build()
BuildRefused(b) == Falsy(b.tracked_point_names)

BuilderInUse == last_call.op # "off"

with_tracked_points(names) ==
    /\ BuilderInUse
    /\ builder' = [builder EXCEPT !.tracked_point_names = Some(names)]
    /\ last_call' = Call("with_tracked_points", Some(names), "", None)
    /\ tracked_points_supplied' = TRUE
    /\ UNCHANGED <<marker_trajectories, rbVars, comVars, trajVars, aspectVars>>

with_virtual_markers(arg) ==
    /\ BuilderInUse
    /\ LET ok == \/ IsNone(arg)
                 \/ /\ ~Falsy(builder.tracked_point_names)
                    /\ validate_virtual_markers(arg[1], builder.tracked_point_names[1])
       IN  /\ builder' = IF ok THEN [builder EXCEPT !.virtual_markers_definitions = arg]
                         ELSE builder
           /\ last_call' = Call("with_virtual_markers", arg,
                                IF ok THEN "" ELSE "ValueError", None)
    /\ UNCHANGED <<tracked_points_supplied, marker_trajectories, rbVars, comVars, trajVars, aspectVars>>

with_segment_connections(arg) ==
    /\ BuilderInUse
    /\ LET ok == \/ IsNone(arg)
                 \/ /\ ~IsNone(MarkerNamesOf(builder))
                    /\ validate_segment_connections(arg[1], MarkerNamesOf(builder)[1])
       IN  /\ builder' = IF ok THEN [builder EXCEPT !.segment_connections = arg]
                         ELSE builder
           /\ last_call' = Call("with_segment_connections", arg,
                                IF ok THEN "" ELSE "ValueError", None)
    /\ UNCHANGED <<tracked_points_supplied, marker_trajectories, rbVars, comVars, trajVars, aspectVars>>

with_center_of_mass(arg) ==
    /\ BuilderInUse
    /\ LET ok == \/ IsNone(arg)
                 \/ /\ ~SegmentConnectionsMissing(builder)
                    /\ validate_center_of_mass(arg[1], builder.segment_connections[1])
       IN  /\ builder' = IF ok THEN [builder EXCEPT !.center_of_mass_definitions = arg]
                         ELSE builder
           /\ last_call' = Call("with_center_of_mass", arg,
                                IF ok THEN "" ELSE "ValueError", None)
    /\ UNCHANGED <<tracked_points_supplied, marker_trajectories, rbVars, comVars, trajVars, aspectVars>>

with_joint_hierarchy(arg) ==
    /\ BuilderInUse
    /\ LET ok == \/ IsNone(arg)
                 \/ /\ ~IsNone(MarkerNamesOf(builder))
                    /\ validate_joint_hierarchy(arg[1], MarkerNamesOf(builder)[1])
       IN  /\ builder' = IF ok THEN [builder EXCEPT !.joint_hierarchy = arg]
                         ELSE builder
           /\ last_call' = Call("with_joint_hierarchy", arg,
                                IF ok THEN "" ELSE "ValueError", None)
    /\ UNCHANGED <<tracked_points_supplied, marker_trajectories, rbVars, comVars, trajVars, aspectVars>>

\* build(): the AnatomicalStructure made of the five fields, after its
\* cross-field checks
build ==
    /\ BuilderInUse
    /\ LET ok == ~BuildRefused(builder) /\ cross_field_checks(builder)
       IN  last_call' = Call("build", None, IF ok THEN "" ELSE "ValueError",
                             IF ok THEN Some(builder) ELSE None)
    /\ UNCHANGED <<builder, tracked_points_supplied, marker_trajectories,
                   rbVars, comVars, trajVars, aspectVars>>

NextBuilder ==
    \/ \E names \in TrackedPointInputs : with_tracked_points(names)
    \/ \E arg \in Optional(VirtualMarkerDicts) : with_virtual_markers(arg)
    \/ \E arg \in Optional(SegmentConnectionDicts) : with_segment_connections(arg)
    \/ \E arg \in Optional(CenterOfMassDicts) : with_center_of_mass(arg)
    \/ \E arg \in Optional(JointHierarchyDicts) : with_joint_hierarchy(arg)
    \/ build

SpecBuilder == InitBuilder /\ [][NextBuilder]_vars

----------------------------------------------------------------------------
(* AnatomicalStructureBuilder: properties *)

\* the names definition i may use: the tracked points and the virtual
\* markers defined before it
NamesBefore(virtual_markers, tracked, i) ==
    Range(tracked) \cup {virtual_markers[k].name : k \in 1..(i - 1)}

ResolvesNames(virtual_markers, tracked, i) ==
    \A j \in 1..Len(virtual_markers[i].marker_names) :
        virtual_markers[i].marker_names[j] \in NamesBefore(virtual_markers, tracked, i)

EqualLengths(vm) == Len(vm.marker_names) = Len(vm.marker_weights)

SumInTolerance(vm) ==
    /\ SumSeq(vm.marker_weights) >= 9900
    /\ SumSeq(vm.marker_weights) <= 10100

WellFormed(virtual_markers, tracked) ==
    \A i \in 1..Len(virtual_markers) :
        EqualLengths(virtual_markers[i]) /\ ResolvesNames(virtual_markers, tracked, i)

VirtualMarkersCalled ==
    /\ last_call.op = "with_virtual_markers"
    /\ ~IsNone(last_call.arg)
    /\ ~Falsy(builder.tracked_point_names)

Built == last_call.op = "build" /\ ~IsNone(last_call.returned)

BuiltVirtualMarkers ==
    IF Falsy(last_call.returned[1].virtual_markers_definitions) THEN <<>>
    ELSE last_call.returned[1].virtual_markers_definitions[1]

\* C7: a set of virtual-marker definitions whose names are all valid and whose
\* name and weight lists have equal length is accepted by with_virtual_markers
\* if and only if every weight sum lies in [0.99, 1.01]; a builder holding only
\* tracked points and such definitions builds if and only if the same holds,
\* and no built structure holds a definition whose sum is outside the interval.
C7_WeightSumDecides ==
    /\ (VirtualMarkersCalled
            /\ WellFormed(last_call.arg[1], builder.tracked_point_names[1]))
        => ((last_call.error = "") <=>
                \A i \in 1..Len(last_call.arg[1]) : SumInTolerance(last_call.arg[1][i]))
    /\ Built =>
            \A i \in 1..Len(BuiltVirtualMarkers) : SumInTolerance(BuiltVirtualMarkers[i])

\* weights [0.4999, 0.5001] were accepted
C7_Witness ==
    /\ VirtualMarkersCalled
    /\ last_call.arg = Some(<<VirtualMarker("V", <<"A", "B">>, <<4999, 5001>>)>>)
    /\ last_call.error = ""
    /\ builder.virtual_markers_definitions = last_call.arg

\* C8: virtual markers are validated in definition order against a growing
\* set of valid names: with_virtual_markers accepts only when every component
\* name of every definition is a tracked point or a virtual marker defined
\* earlier, it raises ValueError for a self-reference, a reference to a later
\* virtual marker or an unknown name, and a built structure satisfies the same.
C8_NamesResolveInOrder ==
    /\ VirtualMarkersCalled =>
          /\ (last_call.error = "") =>
                \A i \in 1..Len(last_call.arg[1]) :
                    ResolvesNames(last_call.arg[1], builder.tracked_point_names[1], i)
          /\ (\E i \in 1..Len(last_call.arg[1]) :
                  ~ResolvesNames(last_call.arg[1], builder.tracked_point_names[1], i))
                => last_call.error = "ValueError"
    /\ Built =>
          \A i \in 1..Len(BuiltVirtualMarkers) :
              ResolvesNames(BuiltVirtualMarkers, last_call.returned[1].tracked_point_names[1], i)

\* a chain (W made of the earlier V) was accepted
C8_Witness ==
    /\ VirtualMarkersCalled
    /\ Len(last_call.arg[1]) = 2
    /\ last_call.arg[1][1].name \in Range(last_call.arg[1][2].marker_names)
    /\ last_call.error = ""

CenterOfMassCalled == last_call.op = "with_center_of_mass" /\ ~IsNone(last_call.arg)

SegmentNames(connections) == {connections[j].name : j \in 1..Len(connections)}

\* C9: with_center_of_mass given definitions raises ValueError while the
\* builder's segment connections are unset (None or empty); given definitions
\* whose segments are all among the segment connections that have been set,
\* it succeeds and stores them.
C9_ComNeedsSegments ==
    CenterOfMassCalled =>
        /\ Falsy(builder.segment_connections) => last_call.error = "ValueError"
        /\ (/\ ~Falsy(builder.segment_connections)
            /\ \A i \in 1..Len(last_call.arg[1]) :
                  last_call.arg[1][i].segment \in SegmentNames(builder.segment_connections[1]))
              => /\ last_call.error = ""
                 /\ builder.center_of_mass_definitions = last_call.arg

\* definitions for a segment were stored after the segment was connected
C9_Witness ==
    /\ CenterOfMassCalled
    /\ Len(last_call.arg[1]) > 0
    /\ ~Falsy(builder.segment_connections)
    /\ last_call.error = ""
    /\ builder.center_of_mass_definitions = last_call.arg

\* C10: build() raises and returns no structure whenever with_tracked_points
\* was never called on the builder.
C10_BuildNeedsTrackedPoints ==
    (last_call.op = "build" /\ ~tracked_points_supplied) =>
        /\ last_call.error # ""
        /\ IsNone(last_call.returned)

\* build() was refused on a builder that never got tracked points
C10_Witness ==
    /\ last_call.op = "build"
    /\ ~tracked_points_supplied
    /\ last_call.error = "ValueError"
    /\ IsNone(last_call.returned)

\* the value of an optional list or dict, None read as empty
ValueOf(o) == IF IsNone(o) THEN <<>> ELSE o[1]

\* the tracked-point names and virtual-marker names of a structure
StructureMarkerNames(s) ==
    Range(ValueOf(s.tracked_point_names))
        \cup {ValueOf(s.virtual_markers_definitions)[i].name :
                 i \in 1..Len(ValueOf(s.virtual_markers_definitions))}

\* C11: every structure returned by build(), whatever sequence of stage calls
\* came before (replacements of an earlier stage's input included), has every
\* segment's proximal and distal name and every joint-hierarchy parent and
\* child name among its tracked-point and virtual-marker names, and every
\* center-of-mass segment name among the names of its segment connections.
C11_BuiltStructureCrossReferences ==
    Built =>
        LET s == last_call.returned[1]
            segments == ValueOf(s.segment_connections)
            hierarchy == ValueOf(s.joint_hierarchy)
            definitions == ValueOf(s.center_of_mass_definitions)
        IN  /\ \A i \in 1..Len(segments) :
                  /\ segments[i].proximal \in StructureMarkerNames(s)
                  /\ segments[i].distal \in StructureMarkerNames(s)
            /\ \A i \in 1..Len(hierarchy) :
                  /\ hierarchy[i].parent \in StructureMarkerNames(s)
                  /\ Range(hierarchy[i].children) \subseteq StructureMarkerNames(s)
            /\ \A i \in 1..Len(definitions) :
                  definitions[i].segment \in SegmentNames(segments)

\* a structure with segments, centers of mass and a joint hierarchy that use
\* a virtual marker was built
C11_Witness ==
    /\ Built
    /\ \E i \in 1..Len(ValueOf(last_call.returned[1].segment_connections)) :
          ValueOf(last_call.returned[1].segment_connections)[i].distal = "V"
    /\ Len(ValueOf(last_call.returned[1].center_of_mass_definitions)) = 2
    /\ \E i \in 1..Len(ValueOf(last_call.returned[1].joint_hierarchy)) :
          "V" \in Range(ValueOf(last_call.returned[1].joint_hierarchy)[i].children)

----------------------------------------------------------------------------
(* Trajectory construction: inputs *)

TrajectoryTrackedPoints == <<"A", "B">>

\* tracked-point lists given to the constructors; TrackedPointsValidator
\* accepts any list of strings, a repeated name included
TrajectoryTrackedPointInputs == {TrajectoryTrackedPoints, <<"A", "A">>}

\* raw coordinates lie on a grid of 16 units, so that two successive
\* weightings by quarters stay exact
TrajectoryCoordValues == {0, 16}

\* raw arrays of one, two or three markers: a sequence over the marker axis of
\* the markers' positions at every frame
TrajectoryArrays ==
    UNION {[1..n -> [Frames -> {Num(x) : x \in TrajectoryCoordValues}]] : n \in {1, 2, 3}}

\* virtual-marker mappings that pass the structure's validation for the
\* given tracked points
TrajectoryVirtualMarkers(tracked) ==
    {vms \in { <<>>,
               <<VirtualMarker("V", <<"A">>, <<10000>>)>>,
               <<VirtualMarker("A", <<"A", "B">>, <<5000, 5000>>)>>,
               <<VirtualMarker("V", <<"A", "B">>, <<5000, 5000>>)>>,
               <<VirtualMarker("V", <<"A", "B">>, <<2500, 7500>>)>>,
               <<VirtualMarker("V", <<"B">>, <<10000>>)>>,
               <<VirtualMarker("V", <<"A", "B">>, <<5000, 5000>>),
                 VirtualMarker("W", <<"V", "A">>, <<5000, 5000>>)>>,
               <<VirtualMarker("V", <<"A", "B">>, <<2500, 7500>>),
                 VirtualMarker("W", <<"V", "B">>, <<5000, 5000>>)>>,
               <<VirtualMarker("W", <<"V", "A">>, <<5000, 5000>>),
                 VirtualMarker("V", <<"A", "B">>, <<5000, 5000>>)>> } :
        validate_virtual_markers(vms, tracked)}

\* segment-connection maps given to Trajectory; with tracked points A and B,
\* marker C is never in the trajectory and V only when it is defined
TrajectorySegmentConnections ==
    { <<>>,
      <<Connection("AB", "A", "B")>>,
      <<Connection("AB", "A", "B"), Connection("BC", "B", "C")>>,
      <<Connection("AB", "A", "B"), Connection("BV", "B", "V")>>,
      <<Connection("CB", "C", "B")>> }

----------------------------------------------------------------------------
(* Trajectory construction: operators *)

\* a position times a weight given in units of 1/10000
FWeight(a, weight) == IF IsNaN(a) THEN NaN ELSE Num((a[1] * weight) \div 10000)

Min(a, b) == IF a < b THEN a ELSE b

\* the result of a constructor: the exception raised ("" when it returned),
\* and the _trajectories and _marker_names of the object
Constructed(error, trajectories, marker_names) ==
    [error |-> error, trajectories |-> trajectories, marker_names |-> marker_names]

Raised(error) == Constructed(error, <<>>, <<>>)

\* {marker_name: data[:, i, :] for i, marker_name in enumerate(marker_names)}
TrackedTrajectories(array, marker_names) ==
    [m \in Range(marker_names) |->
        array[CHOOSE i \in 1..Len(marker_names) :
                 marker_names[i] = m /\ \A j \in (i + 1)..Len(marker_names) : marker_names[j] # m]]

\* the inner loop over zip(marker_names, marker_weights) from pair j on
RECURSIVE WeightedSumFrom(_, _, _, _)
WeightedSumFrom(trajectories, vm, vm_positions, j) ==
    IF j > Min(Len(vm.marker_names), Len(vm.marker_weights)) THEN vm_positions
    ELSE WeightedSumFrom(trajectories, vm,
            [t \in Frames |->
                FAdd(vm_positions[t],
                     FWeight(trajectories[vm.marker_names[j]][t], vm.marker_weights[j]))],
            j + 1)

\* self._trajectories[marker_name] raises KeyError for some component of vm
ComponentMissing(trajectories, vm) ==
    \E j \in 1..Min(Len(vm.marker_names), Len(vm.marker_weights)) :
        vm.marker_names[j] \notin DOMAIN trajectories

\* the loop over the virtual-marker definitions from definition i on;
\* virtual_marker_data is the list of (name, positions) computed so far, and
\* None stands for the KeyError
RECURSIVE VirtualMarkerDataFrom(_, _, _, _)
VirtualMarkerDataFrom(trajectories, definitions, virtual_marker_data, i) ==
    IF i > Len(definitions) THEN Some(virtual_marker_data)
    ELSE IF ComponentMissing(trajectories, definitions[i]) THEN None
    ELSE VirtualMarkerDataFrom(trajectories, definitions,
            Append(virtual_marker_data,
                   [name |-> definitions[i].name,
                    positions |-> WeightedSumFrom(trajectories, definitions[i],
                                                  [t \in Frames |-> Num(0)], 1)]),
            i + 1)

\* dict.update with a list of (name, positions): the last entry of a name wins
UpdatedWith(trajectories, virtual_marker_data) ==
    LET names == {virtual_marker_data[i].name : i \in 1..Len(virtual_marker_data)}
    IN  [m \in DOMAIN trajectories \cup names |->
            IF m \in names
            THEN virtual_marker_data[CHOOSE i \in 1..Len(virtual_marker_data) :
                    /\ virtual_marker_data[i].name = m
                    /\ \A k \in (i + 1)..Len(virtual_marker_data) :
                          virtual_marker_data[k].name # m].positions
            ELSE trajectories[m]]

\* the keys of virtual_marker_data, each once, in order of first insertion
RECURSIVE KeysOf(_)
KeysOf(virtual_marker_data) ==
    IF virtual_marker_data = <<>> THEN <<>>
    ELSE LET front == KeysOf(SubSeq(virtual_marker_data, 1, Len(virtual_marker_data) - 1))
             last == virtual_marker_data[Len(virtual_marker_data)].name
         IN  IF last \in Range(front) THEN front ELSE Append(front, last)

\* Trajectory._set_trajectory_data; data[:, i, :] raises IndexError for a
\* name beyond the array's marker axis
set_trajectory_data(array, marker_names, definitions) ==
    LET trajectories == TrackedTrajectories(array, marker_names)
    IN  IF Len(marker_names) > Len(array) THEN Raised("IndexError")
        ELSE IF Len(definitions) = 0 THEN Constructed("", trajectories, marker_names)
        ELSE LET virtual_marker_data ==
                     VirtualMarkerDataFrom(trajectories, definitions, <<>>, 1)
             IN  IF IsNone(virtual_marker_data) THEN Raised("KeyError")
                 ELSE Constructed("", UpdatedWith(trajectories, virtual_marker_data[1]),
                                  marker_names \o KeysOf(virtual_marker_data[1]))

\* a validator that accepts every array
ShapeNeverRejected(array, marker_names) == FALSE

\* TrajectoryValidator.validate_data: data.shape[1] != len(marker_names)
ShapeRejected(array, marker_names) == Len(array) # Len(marker_names)

\* Trajectory.__init__: _validate_data, then _set_trajectory_data
trajectory_init(array, marker_names, definitions) ==
    IF ShapeRejected(array, marker_names) THEN Raised("ValueError")
    ELSE set_trajectory_data(array, marker_names, definitions)

\* the loop of TrajectoryBuilder.build over the virtual-marker definitions
\* from definition i on: tracked_point_names.index raises ValueError for a
\* component that is not a tracked point, data_array[:, component_indices, :]
\* raises IndexError for an index beyond the array's marker axis; "" when the
\* loop ends
RECURSIVE BuildLoopErrorFrom(_, _, _, _)
BuildLoopErrorFrom(array, tracked, definitions, i) ==
    IF i > Len(definitions) THEN ""
    ELSE LET component_names == definitions[i].marker_names
         IN  IF \E j \in 1..Len(component_names) : component_names[j] \notin Range(tracked)
             THEN "ValueError"
             ELSE IF \E j \in 1..Len(component_names) :
                        IndexOf(tracked, component_names[j]) > Len(array)
             THEN "IndexError"
             ELSE BuildLoopErrorFrom(array, tracked, definitions, i + 1)

\* TrajectoryBuilder.build: the data is not validated; after the loop the call
\* Trajectory(array=..., landmark_names=..., tracked_point_names=...) raises
\* TypeError, Trajectory.__init__ having no such parameters
trajectory_builder_build(array, tracked, definitions) ==
    LET error == BuildLoopErrorFrom(array, tracked, definitions, 1)
    IN  IF error # "" THEN Raised(error) ELSE Raised("TypeError")

\* the result of a segment extraction: the exception raised ("" when it
\* returned) and the list of (name, proximal, distal) entries
Extracted(error, segments) == [error |-> error, segments |-> segments]

\* the loop of create_segment_data from connection i on: a segment with a
\* marker that is not in the data is skipped
RECURSIVE CreateSegmentDataFrom(_, _, _, _)
CreateSegmentDataFrom(trajectory_data, connections, segments, i) ==
    IF i > Len(connections) THEN segments
    ELSE IF \/ connections[i].proximal \notin DOMAIN trajectory_data
            \/ connections[i].distal \notin DOMAIN trajectory_data
    THEN CreateSegmentDataFrom(trajectory_data, connections, segments, i + 1)
    ELSE CreateSegmentDataFrom(trajectory_data, connections,
            Append(segments,
                   [name |-> connections[i].name,
                    proximal |-> Some(trajectory_data[connections[i].proximal]),
                    distal |-> Some(trajectory_data[connections[i].distal])]),
            i + 1)

\* create_segment_data; segment_connections.items() raises AttributeError
\* when no map is given
create_segment_data(trajectory_data, connections) ==
    IF IsNone(connections) THEN Extracted("AttributeError", <<>>)
    ELSE Extracted("", CreateSegmentDataFrom(trajectory_data, connections[1], <<>>, 1))

----------------------------------------------------------------------------
(* Trajectory construction: state machine *)

InitTrajectory ==
    /\ tracked_point_names \in TrajectoryTrackedPointInputs
    /\ virtual_marker_definitions \in TrajectoryVirtualMarkers(tracked_point_names)
    /\ data \in TrajectoryArrays
    /\ trajectory = <<>>
    /\ traj_pc = "ready"
    /\ trajectory_segment_connections = None
    /\ segment_data_result = <<>>
    /\ marker_trajectories = <<>>
    /\ IdleRigid /\ IdleCom /\ IdleBuilder /\ IdlePipeline

\* Trajectory(name, data, marker_names, virtual_marker_definitions,
\* segment_connections)
ConstructTrajectory ==
    /\ traj_pc = "ready"
    /\ trajectory' = trajectory_init(data, tracked_point_names, virtual_marker_definitions)
    /\ trajectory_segment_connections' \in Optional(TrajectorySegmentConnections)
    /\ traj_pc' = "constructed"
    /\ UNCHANGED <<tracked_point_names, virtual_marker_definitions, data,
                   segment_data_result, marker_trajectories, rbVars, comVars, builderVars, aspectVars>>

\* TrajectoryBuilder(tracked_point_names, virtual_marker_definitions).build(name, data)
BuildTrajectory ==
    /\ traj_pc = "ready"
    /\ trajectory' = trajectory_builder_build(data, tracked_point_names,
                                              virtual_marker_definitions)
    /\ traj_pc' = "built"
    /\ UNCHANGED <<tracked_point_names, virtual_marker_definitions, data,
                   trajectory_segment_connections, segment_data_result,
                   marker_trajectories, rbVars, comVars, builderVars, aspectVars>>

\* reading the segment_data property of the constructed trajectory
SegmentData ==
    /\ traj_pc = "constructed"
    /\ trajectory.error = ""
    /\ segment_data_result' =
          Extracted("", IF Falsy(trajectory_segment_connections) THEN <<>>
                        ELSE segment_data(trajectory.trajectories,
                                          trajectory_segment_connections[1]))
    /\ traj_pc' = "segment_data"
    /\ UNCHANGED <<tracked_point_names, virtual_marker_definitions, data, trajectory,
                   trajectory_segment_connections,
                   marker_trajectories, rbVars, comVars, builderVars, aspectVars>>

\* create_segment_data(trajectory.data, segment_connections)
CreateSegmentData ==
    /\ traj_pc = "constructed"
    /\ trajectory.error = ""
    /\ segment_data_result' =
          create_segment_data(trajectory.trajectories, trajectory_segment_connections)
    /\ traj_pc' = "create_segment_data"
    /\ UNCHANGED <<tracked_point_names, virtual_marker_definitions, data, trajectory,
                   trajectory_segment_connections,
                   marker_trajectories, rbVars, comVars, builderVars, aspectVars>>

NextTrajectory ==
    ConstructTrajectory \/ BuildTrajectory \/ SegmentData \/ CreateSegmentData

SpecTrajectory == InitTrajectory /\ [][NextTrajectory]_vars

----------------------------------------------------------------------------
(* Trajectory construction: properties *)

\* the position a virtual marker should have: the weighted sum of its
\* components, an earlier virtual marker contributing its own position
RECURSIVE ExpectedPosition(_, _, _), ExpectedSum(_, _, _)
ExpectedSum(k, j, t) ==
    LET vm == virtual_marker_definitions[k]
    IN  IF j > Len(vm.marker_names) THEN Num(0)
        ELSE FAdd(FWeight(ExpectedPosition(vm.marker_names[j], k, t), vm.marker_weights[j]),
                  ExpectedSum(k, j + 1, t))

ExpectedPosition(name, i, t) ==
    LET earlier == {k \in 1..(i - 1) : virtual_marker_definitions[k].name = name}
    IN  IF earlier = {}
        THEN data[IndexOf(tracked_point_names, name)][t]
        ELSE ExpectedSum(CHOOSE k \in earlier : \A l \in earlier : l <= k, 1, t)

TrajectoryRequested ==
    /\ traj_pc \in {"constructed", "built"}
    /\ Len(data) = Len(tracked_point_names)

\* a later virtual marker lists an earlier one as a component
Chained ==
    \E i \in 1..Len(virtual_marker_definitions) :
        \E k \in 1..(i - 1) :
            virtual_marker_definitions[k].name
                \in Range(virtual_marker_definitions[i].marker_names)

\* C6: for every validated set of virtual-marker definitions (chains
\* included) and every raw array with as many markers as tracked points,
\* constructing the trajectory (by Trajectory or by TrajectoryBuilder.build)
\* succeeds and every virtual marker's position at every frame is the weighted
\* sum of its components' positions.
C6_ConstructionComputesWeightedSums ==
    TrajectoryRequested =>
        /\ trajectory.error = ""
        /\ \A i \in 1..Len(virtual_marker_definitions) :
              \A t \in Frames :
                  trajectory.trajectories[virtual_marker_definitions[i].name][t]
                      = ExpectedPosition(virtual_marker_definitions[i].name, i + 1, t)

\* Trajectory.as_numpy: one column per entry of _marker_names, NaN where the
\* name has no position data
as_numpy(t) ==
    [i \in 1..Len(t.marker_names) |->
        IF t.marker_names[i] \in DOMAIN t.trajectories
        THEN t.trajectories[t.marker_names[i]]
        ELSE [f \in Frames |-> NaN]]

Constructs == traj_pc = "constructed" /\ trajectory.error = ""

\* C13: a constructed Trajectory holds position data for as many markers as
\* its marker-name list has entries, also when a virtual-marker name repeats a
\* tracked-point name or a tracked-point name occurs twice.
C13_MarkerCountMatchesNames ==
    Constructs => Cardinality(DOMAIN trajectory.trajectories) = Len(trajectory.marker_names)

\* C12: constructing a trajectory from an array whose marker dimension
\* differs from the number of tracked-point names raises and yields no
\* trajectory, by Trajectory(...) as well as by TrajectoryBuilder.build.
C12_ShapeMismatchFails ==
    (traj_pc \in {"constructed", "built"} /\ Len(data) # Len(tracked_point_names)) =>
        /\ trajectory.error # ""
        /\ trajectory.trajectories = <<>>
        /\ trajectory.marker_names = <<>>

\* Trajectory(...) refused an array with one marker too many
C12_Witness ==
    /\ traj_pc = "constructed"
    /\ Len(data) = Len(tracked_point_names) + 1
    /\ trajectory.error = "ValueError"

SegmentsExtracted ==
    /\ traj_pc \in {"segment_data", "create_segment_data"}
    /\ ~IsNone(trajectory_segment_connections)

\* the connections whose two markers are both in the trajectory
PresentSegments ==
    {trajectory_segment_connections[1][i].name :
        i \in {k \in 1..Len(trajectory_segment_connections[1]) :
                 /\ trajectory_segment_connections[1][k].proximal
                        \in DOMAIN trajectory.trajectories
                 /\ trajectory_segment_connections[1][k].distal
                        \in DOMAIN trajectory.trajectories}}

\* C14: segment extraction on a trajectory with a segment-connection map
\* never raises, and its result holds exactly the segments whose proximal and
\* distal markers are both in the trajectory, none of them with a missing
\* position.
C14_AbsentSegmentsExcluded ==
    SegmentsExtracted =>
        /\ segment_data_result.error = ""
        /\ {segment_data_result.segments[i].name :
               i \in 1..Len(segment_data_result.segments)} = PresentSegments
        /\ \A i \in 1..Len(segment_data_result.segments) :
              /\ ~IsNone(segment_data_result.segments[i].proximal)
              /\ ~IsNone(segment_data_result.segments[i].distal)

----------------------------------------------------------------------------
(* Aspect and calculation pipeline: inputs *)

MaxTasks == 2

\* TrajectoryNames
XYZ == "3d_xyz"

RIGID_XYZ == "rigid_3d_xyz"

TOTAL_BODY_COM == "total_body_center_of_mass"

SEGMENT_COM == "segment_center_of_mass"

TaskClasses == {"CenterOfMassCalculation", "RigidBonesEnforcement"}

\* the lists of task classes a CalculationPipeline is made with
TaskLists == UNION {[1..n -> TaskClasses] : n \in 0..MaxTasks}

\* a Trajectory object: the name it was given, its _marker_names, its
\* _trajectories and its _segment_connections
TrajectoryObject(name, marker_names, trajectories, connections) ==
    [name |-> name, marker_names |-> marker_names, trajectories |-> trajectories,
     segment_connections |-> connections]

\* raw trajectories of the markers A, B and C that an aspect may hold as
\* '3d_xyz': A and C rest, B is undefined or at 100 in each frame
XyzTrajectories ==
    {TrajectoryObject(XYZ, MarkerNames,
        [m \in Markers |-> [t \in Frames |-> IF m = "B" THEN b[t] ELSE Num(0)]],
        Some(SegmentConnections)) :
            b \in [Frames -> {NaN, Num(100)}]}

\* the structures of the aspects: with and without center-of-mass
\* definitions and joint hierarchy (None and empty both count as absent)
AspectStructures ==
    {[tracked_point_names |-> Some(MarkerNames),
      virtual_markers_definitions |-> None,
      segment_connections |-> Some(SegmentConnections),
      center_of_mass_definitions |-> com,
      joint_hierarchy |-> hierarchy] :
        com \in {None, Some(<<>>), Some(<<ComDefinition("AB", 4, 10)>>)},
        hierarchy \in {None, Some(<<>>), Some(<<Entry("A", <<"B">>)>>)}}

\* an aspect: its structure and its name -> Trajectory mapping
Aspect(structure, trajectories) ==
    [anatomical_structure |-> structure, trajectories |-> trajectories]

Aspects ==
    {Aspect(structure, <<>>) : structure \in AspectStructures}
        \cup {Aspect(structure, [n \in {XYZ} |-> xyz]) :
                 structure \in AspectStructures, xyz \in XyzTrajectories}

----------------------------------------------------------------------------
(* Aspect and calculation pipeline: operators *)

\* the parameters of Trajectory.__init__ after self; the first three have no
\* default
TrajectoryInitParameters ==
    <<"name", "data", "marker_names", "virtual_marker_definitions", "segment_connections">>

TrajectoryInitRequired == SubSeq(TrajectoryInitParameters, 1, 3)

\* the exception of the call Trajectory(**keywords): TypeError for a keyword
\* that is not a parameter or a required parameter that is not given
TrajectoryCallError(keywords) ==
    IF \/ ~(keywords \subseteq Range(TrajectoryInitParameters))
       \/ ~(Range(TrajectoryInitRequired) \subseteq keywords)
    THEN "TypeError"
    ELSE ""

\* the methods of Trajectory; its other public members are properties
TrajectoryMethods == {"get_marker", "get_frame"}

\* getattr(trajectory, attribute) for the members the engines read: None
\* stands for the AttributeError raised for a trajectory that is None or for
\* a member that Trajectory does not have
GetAttribute(trajectory_object, attribute) ==
    IF IsNone(trajectory_object) THEN None
    ELSE IF attribute = "segment_data"
    THEN Some(IF Falsy(trajectory_object[1].segment_connections) THEN <<>>
              ELSE segment_data(trajectory_object[1].trajectories,
                                trajectory_object[1].segment_connections[1]))
    ELSE IF attribute = "num_frames" THEN Some(NumFrames)
    ELSE None

\* aspect.xyz: self.trajectories.get('3d_xyz')
XyzOf(a) ==
    IF XYZ \in DOMAIN a.trajectories THEN Some(a.trajectories[XYZ]) ELSE None

CalculationResult(success, result_data, messages) ==
    [success |-> success, data |-> result_data, messages |-> messages]

\* the outcome of a method: the exception raised ("" when it returned), the
\* CalculationResult it returned if any, the aspect afterwards, and whether
\* store() was called
Outcome(error, result, a, stored) ==
    [error |-> error, results |-> result, aspect |-> a, stored |-> stored]

SkippedMessage(task) ==
    IF task = "CenterOfMassCalculation" THEN "No COM definitions, skipping COM calculation"
    ELSE "No joint hierarchy defined, skipping rigid bones enforcement"

SuccessMessage(task) ==
    IF task = "CenterOfMassCalculation" THEN "Successfully calculated COM"
    ELSE "Successfully enforced rigid bones"

\* the edge order of the forward pass: the loop `while queue`, for at most
\* n more iterations
RECURSIVE EdgeOrderFrom(_, _, _, _)
EdgeOrderFrom(hierarchy, pending, edges, n) ==
    IF pending = <<>> \/ n = 0 THEN edges
    ELSE LET children == ChildrenOf(hierarchy, Head(pending))
         IN  EdgeOrderFrom(hierarchy, Tail(pending) \o children,
                edges \o [j \in 1..Len(children) |-> <<Head(pending), children[j]>>],
                n - 1)

\* enforce_rigid_bones as one function
enforce_rigid_bones(trajectories, hierarchy) ==
    merge_rigid_marker_data(
        rigidify_forward_pass(trajectories,
            EdgeOrderFrom(hierarchy, <<RootOf(hierarchy)>>, <<>>, MaxBfsSteps),
            calculate_bone_lengths_and_statistics(trajectories, hierarchy)))

\* a calculate that does not leave the aspect alone: it drops the
\* trajectories of the aspect before it reports that it skipped
ComCalculateDroppingTrajectories(a) ==
    IF Falsy(a.anatomical_structure.center_of_mass_definitions)
    THEN Outcome("", Some(CalculationResult(FALSE, <<>>,
                            <<SkippedMessage("CenterOfMassCalculation")>>)),
                 Aspect(a.anatomical_structure, <<>>), FALSE)
    ELSE Outcome("AttributeError", None, a, FALSE)

\* CenterOfMassCalculation.calculate
com_calculate(a) ==
    LET definitions == a.anatomical_structure.center_of_mass_definitions
        segment_data_member == GetAttribute(XyzOf(a), "segment_data")
    IN  IF Falsy(definitions)
        THEN Outcome("", Some(CalculationResult(FALSE, <<>>,
                                <<SkippedMessage("CenterOfMassCalculation")>>)), a, FALSE)
        ELSE IF IsNone(segment_data_member) THEN Outcome("AttributeError", None, a, FALSE)
        ELSE IF "segment_data" \notin TrajectoryMethods
        THEN Outcome("TypeError", None, a, FALSE)
        ELSE LET segment_com_data ==
                     calculate_all_segments_com(segment_data_member[1], definitions[1])
             IN  Outcome("", Some(CalculationResult(TRUE,
                        [k \in {TOTAL_BODY_COM, SEGMENT_COM} |->
                            IF k = TOTAL_BODY_COM
                            THEN calculate_total_body_center_of_mass(segment_com_data,
                                                                     definitions[1])
                            ELSE create_array_of_segment_com_data(segment_com_data)],
                        <<SuccessMessage("CenterOfMassCalculation")>>)), a, FALSE)

\* RigidBonesEnforcement.calculate
rigid_calculate(a) ==
    LET hierarchy == a.anatomical_structure.joint_hierarchy
        as_dict == GetAttribute(XyzOf(a), "as_dict")
    IN  IF Falsy(hierarchy)
        THEN Outcome("", Some(CalculationResult(FALSE, <<>>,
                                <<SkippedMessage("RigidBonesEnforcement")>>)), a, FALSE)
        ELSE IF IsNone(as_dict) THEN Outcome("AttributeError", None, a, FALSE)
        ELSE Outcome("", Some(CalculationResult(TRUE,
                    [k \in {RIGID_XYZ} |-> enforce_rigid_bones(as_dict[1], hierarchy[1])],
                    <<SuccessMessage("RigidBonesEnforcement")>>)), a, FALSE)

calculate(task, a) ==
    IF task = "CenterOfMassCalculation" THEN com_calculate(a) ELSE rigid_calculate(a)

\* isinstance(value, Trajectory)
IsTrajectory(value) ==
    DOMAIN value = {"name", "marker_names", "trajectories", "segment_connections"}

\* Aspect.add_trajectory from item i of the dictionary on: the items before
\* a value that is not a Trajectory are already in the aspect when TypeError
\* is raised
RECURSIVE add_trajectory_from(_, _, _)
add_trajectory_from(a, items, i) ==
    IF i > Len(items) THEN Outcome("", None, a, TRUE)
    ELSE IF ~IsTrajectory(items[i][2]) THEN Outcome("TypeError", None, a, TRUE)
    ELSE add_trajectory_from(
            [a EXCEPT !.trajectories =
                [n \in DOMAIN a.trajectories \cup {items[i][1]} |->
                    IF n = items[i][1] THEN items[i][2] ELSE a.trajectories[n]]],
            items, i + 1)

\* an add_trajectory that checks every value before it adds any
AddTrajectoryCheckingFirst(a, dict_of_trajectories) ==
    IF \E i \in 1..Len(dict_of_trajectories) : ~IsTrajectory(dict_of_trajectories[i][2])
    THEN Outcome("TypeError", None, a, TRUE)
    ELSE add_trajectory_from(a, dict_of_trajectories, 1)

add_trajectory(a, dict_of_trajectories) == add_trajectory_from(a, dict_of_trajectories, 1)

\* the keywords the store methods pass to Trajectory(...)
StoreKeywords(task) ==
    IF task = "CenterOfMassCalculation" THEN {"name", "array", "landmark_names"}
    ELSE {"name", "array", "landmark_names", "segment_connections"}

\* the dictionary the store methods hand to add_trajectory
StoredTrajectories(task, a, result) ==
    IF task = "CenterOfMassCalculation"
    THEN <<  <<TOTAL_BODY_COM,
               TrajectoryObject(TOTAL_BODY_COM, <<TOTAL_BODY_COM>>,
                                result.data[TOTAL_BODY_COM], None)>>,
             <<SEGMENT_COM,
               TrajectoryObject(SEGMENT_COM,
                   [j \in 1..Len(a.anatomical_structure.center_of_mass_definitions[1]) |->
                        a.anatomical_structure.center_of_mass_definitions[1][j].segment],
                   result.data[SEGMENT_COM], None)>> >>
    ELSE << <<RIGID_XYZ,
              TrajectoryObject(RIGID_XYZ, a.anatomical_structure.tracked_point_names[1],
                               result.data[RIGID_XYZ],
                               a.anatomical_structure.segment_connections)>> >>

\* CenterOfMassCalculation.store and RigidBonesEnforcement.store
store(task, a, result) ==
    IF ~result.success THEN Outcome("", None, a, TRUE)
    ELSE IF TrajectoryCallError(StoreKeywords(task)) # ""
    THEN Outcome(TrajectoryCallError(StoreKeywords(task)), None, a, TRUE)
    ELSE add_trajectory(a, StoredTrajectories(task, a, result))

\* store is called for every result
StoreAlwaysInvoked(result) == TRUE

\* `if results.success:` in calculate_and_store
StoreInvoked(result) == result.success

\* AnatomicalCalculation.calculate_and_store
calculate_and_store(task, a) ==
    LET calculated == calculate(task, a)
    IN  IF calculated.error # "" THEN calculated
        ELSE IF StoreInvoked(calculated.results[1])
        THEN LET stored == store(task, a, calculated.results[1])
             IN  Outcome(stored.error,
                         IF stored.error = "" THEN calculated.results ELSE None,
                         stored.aspect, TRUE)
        ELSE calculated

----------------------------------------------------------------------------
(* Aspect and calculation pipeline: CalculationPipeline.run as a state machine *)

\* the results a caller hands to store() directly
StoreInputs(task) ==
    {CalculationResult(FALSE, <<>>, <<SkippedMessage(task)>>),
     CalculationResult(TRUE,
        IF task = "CenterOfMassCalculation"
        THEN [k \in {TOTAL_BODY_COM, SEGMENT_COM} |-> <<>>]
        ELSE [k \in {RIGID_XYZ} |-> <<>>],
        <<SuccessMessage(task)>>)}

InitPipeline ==
    /\ aspect \in Aspects
    /\ tasks \in TaskLists
    /\ task_index = 0
    /\ results = None
    /\ results_log = <<>>
    /\ executed = <<>>
    /\ store_calls = <<>>
    /\ pipeline_error = ""
    /\ pipeline_pc = "ready"
    /\ previous_run = <<>>
    /\ add_trajectory_call = <<>>
    /\ marker_trajectories = <<>>
    /\ IdleRigid /\ IdleCom /\ IdleBuilder /\ IdleTrajectory

\* a log that keeps the messages of the call before
KeptResultsLog(log) == log

\* results_log = [] at the start of run()
NewResultsLog(log) == <<>>

\* run(): results_log = [] and the start of the loop over self.tasks
Run ==
    /\ pipeline_pc = "ready"
    /\ results_log' = NewResultsLog(results_log)
    /\ task_index' = 1
    /\ pipeline_pc' = "running"
    /\ UNCHANGED <<aspect, tasks, results, executed, store_calls, pipeline_error,
                   previous_run, add_trajectory_call,
                   marker_trajectories, rbVars, comVars, builderVars, trajVars>>

\* one iteration of the loop: calculate_and_store of the next task, then the
\* extension of the log; an exception leaves run()
RunTask ==
    /\ pipeline_pc = "running"
    /\ task_index <= Len(tasks)
    /\ LET outcome == calculate_and_store(tasks[task_index], aspect)
       IN  /\ executed' = Append(executed,
                    [task |-> tasks[task_index], index |-> task_index,
                     error |-> outcome.error, results |-> outcome.results,
                     stored |-> outcome.stored, before |-> aspect,
                     after |-> outcome.aspect])
           /\ aspect' = outcome.aspect
           /\ IF outcome.error # ""
              THEN /\ pipeline_error' = outcome.error
                   /\ pipeline_pc' = "raised"
                   /\ UNCHANGED <<results, results_log, task_index>>
              ELSE /\ results' = outcome.results
                   /\ results_log' = results_log \o outcome.results[1].messages
                   /\ task_index' = task_index + 1
                   /\ UNCHANGED <<pipeline_error, pipeline_pc>>
    /\ UNCHANGED <<tasks, store_calls, previous_run, add_trajectory_call,
                   marker_trajectories, rbVars, comVars, builderVars, trajVars>>

\* the loop is over: return results_log
RunReturn ==
    /\ pipeline_pc = "running"
    /\ task_index > Len(tasks)
    /\ pipeline_pc' = "returned"
    /\ UNCHANGED <<aspect, tasks, task_index, results, results_log, executed, store_calls,
                   pipeline_error, previous_run, add_trajectory_call,
                   marker_trajectories, rbVars, comVars, builderVars, trajVars>>

\* run() is called again on the same aspect once the call before is over,
\* whether it returned or the caller caught its exception
RunAgain ==
    /\ pipeline_pc \in {"returned", "raised"}
    /\ previous_run = <<>>
    /\ previous_run' = <<[aspect |-> aspect, results_log |-> results_log,
                          executed |-> executed, pipeline_error |-> pipeline_error,
                          pipeline_pc |-> pipeline_pc]>>
    /\ results_log' = NewResultsLog(results_log)
    /\ executed' = <<>>
    /\ pipeline_error' = ""
    /\ task_index' = 1
    /\ pipeline_pc' = "running"
    /\ UNCHANGED <<aspect, tasks, results, store_calls, add_trajectory_call,
                   marker_trajectories, rbVars, comVars, builderVars, trajVars>>

\* a caller hands a result to the store method of a task
Store ==
    /\ pipeline_pc = "ready"
    /\ store_calls = <<>>
    /\ \E task \in TaskClasses :
        \E result \in StoreInputs(task) :
            LET outcome == store(task, aspect, result)
            IN  /\ store_calls' = Append(store_calls,
                        [task |-> task, results |-> result, error |-> outcome.error,
                         before |-> aspect, after |-> outcome.aspect])
                /\ aspect' = outcome.aspect
    /\ UNCHANGED <<tasks, task_index, results, results_log, executed, pipeline_error,
                   pipeline_pc, previous_run, add_trajectory_call,
                   marker_trajectories, rbVars, comVars, builderVars, trajVars>>

NextPipeline == Run \/ RunTask \/ RunReturn \/ RunAgain \/ Store

SpecPipeline == InitPipeline /\ [][NextPipeline]_vars

----------------------------------------------------------------------------
(* Aspect and calculation pipeline: properties *)

\* the definitions a task needs are absent from the structure of the aspect
DefinitionsAbsent(task, a) ==
    IF task = "CenterOfMassCalculation"
    THEN Falsy(a.anatomical_structure.center_of_mass_definitions)
    ELSE Falsy(a.anatomical_structure.joint_hierarchy)

\* C15: a task run on an aspect whose structure declares no center-of-mass
\* definitions (CenterOfMassCalculation) or no joint hierarchy
\* (RigidBonesEnforcement) raises nothing, returns success = False with empty
\* data and a message, does not call store, and leaves the trajectories of
\* the aspect as they were
C15_AbsentDefinitionsSkip ==
    \A i \in 1..Len(executed) :
        DefinitionsAbsent(executed[i].task, executed[i].before) =>
            /\ executed[i].error = ""
            /\ ~IsNone(executed[i].results)
            /\ executed[i].results[1].success = FALSE
            /\ executed[i].results[1].data = <<>>
            /\ Len(executed[i].results[1].messages) > 0
            /\ ~executed[i].stored
            /\ executed[i].after.trajectories = executed[i].before.trajectories

\* both tasks have been skipped on an aspect that holds a raw trajectory
C15_Witness ==
    /\ Len(executed) = 2
    /\ executed[1].task = "CenterOfMassCalculation"
    /\ executed[2].task = "RigidBonesEnforcement"
    /\ DefinitionsAbsent(executed[1].task, executed[1].before)
    /\ DefinitionsAbsent(executed[2].task, executed[2].before)
    /\ XYZ \in DOMAIN aspect.trajectories
    /\ Len(results_log) = 2

\* the messages of the first n executed tasks, in order
RECURSIVE MessagesOf(_)
MessagesOf(n) ==
    IF n = 0 THEN <<>>
    ELSE MessagesOf(n - 1) \o
         (IF IsNone(executed[n].results) THEN <<>> ELSE executed[n].results[1].messages)

\* run() is over, by return or by exception
RunOver == pipeline_pc \in {"returned", "raised"}

\* C16: run() executes every task in declared order, a task whose
\* definitions are present runs and stores whatever was skipped before it,
\* and the log that run() returns is the concatenation in task order of the
\* messages of every task
C16_RunsEveryTaskInOrder ==
    RunOver =>
        /\ pipeline_pc = "returned"
        /\ Len(executed) = Len(tasks)
        /\ \A i \in 1..Len(tasks) :
            /\ executed[i].task = tasks[i]
            /\ executed[i].error = ""
            /\ ~DefinitionsAbsent(tasks[i], executed[i].before) => executed[i].stored
        /\ results_log = MessagesOf(Len(tasks))

\* the names the docstring of CenterOfMassCalculation and of
\* RigidBonesEnforcement give to the trajectories they add
DocumentedNames(task) ==
    IF task = "CenterOfMassCalculation" THEN {"total_body_com", "segment_com"}
    ELSE {"rigid_3d_xyz"}

\* C20: storing a successful result adds to the aspect exactly the
\* trajectories 'total_body_com' and 'segment_com' (CenterOfMassCalculation)
\* or exactly 'rigid_3d_xyz' (RigidBonesEnforcement), and they can be looked
\* up under these keys afterwards
C20_StoredUnderDocumentedNames ==
    \A i \in 1..Len(store_calls) :
        store_calls[i].results.success =>
            /\ store_calls[i].error = ""
            /\ DOMAIN store_calls[i].after.trajectories \ DOMAIN store_calls[i].before.trajectories
                    = DocumentedNames(store_calls[i].task)
            /\ DocumentedNames(store_calls[i].task) \subseteq DOMAIN aspect.trajectories

\* C26: RigidBonesEnforcement run on an aspect with a joint hierarchy and a
\* raw trajectory stores a 'rigid_3d_xyz' trajectory whose i-th name is the
\* i-th name of the structure's marker list and whose i-th column holds
\* the rigidified positions of the i-th marker of the input.
C26_RigidStoredUnderOwnNames ==
    \A i \in 1..Len(executed) :
        (/\ executed[i].task = "RigidBonesEnforcement"
         /\ ~DefinitionsAbsent(executed[i].task, executed[i].before)
         /\ XYZ \in DOMAIN executed[i].before.trajectories) =>
            /\ executed[i].error = ""
            /\ RIGID_XYZ \in DOMAIN executed[i].after.trajectories
            /\ LET stored == executed[i].after.trajectories[RIGID_XYZ]
                   structure == executed[i].before.anatomical_structure
                   raw == executed[i].before.trajectories[XYZ].trajectories
               IN  /\ stored.marker_names = structure.tracked_point_names[1]
                   /\ stored.trajectories
                        = enforce_rigid_bones(raw, structure.joint_hierarchy[1])

\* CalculationPipeline.run as a function of the aspect and the task list:
\* the loop from task i on, given the log collected so far
RECURSIVE run_from(_, _, _, _)
run_from(a, task_list, i, log) ==
    IF i > Len(task_list)
    THEN [aspect |-> a, error |-> "", results_log |-> log]
    ELSE LET outcome == calculate_and_store(task_list[i], a)
         IN  IF outcome.error # ""
             THEN [aspect |-> outcome.aspect, error |-> outcome.error,
                   results_log |-> log]
             ELSE run_from(outcome.aspect, task_list, i + 1,
                           log \o outcome.results[1].messages)

run(a, task_list) == run_from(a, task_list, 1, NewResultsLog(<<>>))

STANDARD_PIPELINE == <<"CenterOfMassCalculation", "RigidBonesEnforcement">>

Reversed(task_list) == [i \in 1..Len(task_list) |-> task_list[Len(task_list) + 1 - i]]

\* the messages of a log, counted
BagOfLog(log) == [m \in {log[i] : i \in 1..Len(log)} |->
                      Cardinality({i \in 1..Len(log) : log[i] = m})]

\* the first call of run() is over and it ran the two standard tasks, in
\* either order, on an aspect that holds '3d_xyz'
StandardRunOver ==
    /\ RunOver
    /\ previous_run = <<>>
    /\ store_calls = <<>>
    /\ tasks \in {STANDARD_PIPELINE, Reversed(STANDARD_PIPELINE)}
    /\ XYZ \in DOMAIN executed[1].before.trajectories

----------------------------------------------------------------------------
(* The two engines and the pipeline that applies them *)

InitEngines == InitRigid \/ InitCom \/ InitPipeline

NextEngines == NextRigid \/ NextCom \/ NextPipeline

SpecEngines == InitEngines /\ [][NextEngines]_vars

\* a step of enforce_rigid_bones; the step from "done" is the caller's
RigidEngineStep == rb_pc \in {"ready", "bfs"}

\* a step of calculate_center_of_mass
ComEngineStep == com_pc = "ready"

\* a step that called a store method
StoreStep ==
    \/ Len(store_calls') > Len(store_calls)
    \/ /\ Len(executed') > Len(executed)
       /\ executed'[Len(executed')].stored

----------------------------------------------------------------------------
(* Aspect.add_trajectory called by a user of the aspect *)

\* a Trajectory handed to add_trajectory: every marker at 1 in every frame
GivenTrajectory(name) ==
    TrajectoryObject(name, MarkerNames,
        [m \in Markers |-> [t \in Frames |-> Num(1)]], None)

\* a value that is not a Trajectory: a bare array
BareArray == [array |-> [t \in Frames |-> Num(1)]]

TrajectoryNameValues == {XYZ, RIGID_XYZ, TOTAL_BODY_COM}

\* the dictionaries handed to add_trajectory, as item lists in insertion
\* order: one to three distinct names, each with a Trajectory or a bare array
TrajectoryDictionaries ==
    {items \in UNION {[1..n -> TrajectoryNameValues \X {TRUE, FALSE}] : n \in 1..3} :
        \A i, k \in 1..Len(items) : i # k => items[i][1] # items[k][1]}

ItemsOf(dictionary) ==
    [i \in 1..Len(dictionary) |->
        <<dictionary[i][1],
          IF dictionary[i][2] THEN GivenTrajectory(dictionary[i][1]) ELSE BareArray>>]

InitAspect ==
    /\ aspect \in Aspects
    /\ tasks = <<>>
    /\ task_index = 0
    /\ results = None
    /\ results_log = <<>>
    /\ executed = <<>>
    /\ store_calls = <<>>
    /\ pipeline_error = ""
    /\ pipeline_pc = "aspect"
    /\ previous_run = <<>>
    /\ add_trajectory_call = <<>>
    /\ marker_trajectories = <<>>
    /\ IdleRigid /\ IdleCom /\ IdleBuilder /\ IdleTrajectory

\* aspect.add_trajectory(dict_of_trajectories)
AddTrajectory ==
    /\ pipeline_pc = "aspect"
    /\ add_trajectory_call = <<>>
    /\ \E dictionary \in TrajectoryDictionaries :
        LET outcome == add_trajectory(aspect, ItemsOf(dictionary))
        IN  /\ add_trajectory_call' =
                    <<[items |-> ItemsOf(dictionary), error |-> outcome.error,
                       before |-> aspect, after |-> outcome.aspect]>>
            /\ aspect' = outcome.aspect
            /\ pipeline_error' = outcome.error
    /\ UNCHANGED <<tasks, task_index, results, results_log, executed, store_calls,
                   pipeline_pc, previous_run,
                   marker_trajectories, rbVars, comVars, builderVars, trajVars>>

NextAspect == AddTrajectory

SpecAspect == InitAspect /\ [][NextAspect]_vars

\* the names of the items of a dictionary
NamesOf(items) == {items[i][1] : i \in 1..Len(items)}

\* every given name maps to the given value and all other names are as before
AllAdded(call) ==
    /\ DOMAIN call.after.trajectories =
            DOMAIN call.before.trajectories \cup NamesOf(call.items)
    /\ \A i \in 1..Len(call.items) :
            call.after.trajectories[call.items[i][1]] = call.items[i][2]
    /\ \A n \in DOMAIN call.before.trajectories \ NamesOf(call.items) :
            call.after.trajectories[n] = call.before.trajectories[n]

\* C30: add_trajectory is all-or-nothing: when it raises TypeError the
\* trajectories of the aspect are what they were before the call, wherever
\* the invalid entry is in the mapping; when it does not raise, every given
\* name maps to the given trajectory and all other names are unchanged
C30_AddTrajectoryAllOrNothing ==
    add_trajectory_call # <<>> =>
        LET call == add_trajectory_call[1]
        IN  /\ call.after.anatomical_structure = call.before.anatomical_structure
            /\ IF call.error = "TypeError"
               THEN call.after.trajectories = call.before.trajectories
               ELSE AllAdded(call)

\* the items in front of the first value that is not a Trajectory (all of
\* them when every value is one)
ValidPrefix(items) ==
    LET n == CHOOSE k \in 0..Len(items) :
                 /\ \A i \in 1..k : IsTrajectory(items[i][2])
                 /\ k = Len(items) \/ ~IsTrajectory(items[k + 1][2])
    IN  SubSeq(items, 1, n)

\* C30 (amended): add_trajectory adds the entries in iteration order up to
\* the first value that is not a Trajectory: it raises TypeError exactly when
\* there is such a value, the entries in front of it are then in the aspect,
\* that entry and the ones behind it are not, and all other names are
\* unchanged; when it does not raise, every given name maps to the given
\* trajectory and all other names are unchanged
C30_AddsUpToFirstInvalid ==
    add_trajectory_call # <<>> =>
        LET call == add_trajectory_call[1]
        IN  /\ call.after.anatomical_structure = call.before.anatomical_structure
            /\ (call.error = "TypeError") <=> (ValidPrefix(call.items) # call.items)
            /\ call.error \in {"", "TypeError"}
            /\ AllAdded([call EXCEPT !.items = ValidPrefix(call.items)])
            /\ aspect = call.after

C30_Witness ==
    /\ add_trajectory_call # <<>>
    /\ add_trajectory_call[1].error = "TypeError"
    /\ Len(ValidPrefix(add_trajectory_call[1].items)) = 1
    /\ Len(add_trajectory_call[1].items) = 3
    /\ RIGID_XYZ \in DOMAIN aspect.trajectories
    /\ RIGID_XYZ \notin DOMAIN add_trajectory_call[1].before.trajectories
    /\ XYZ \in DOMAIN add_trajectory_call[1].before.trajectories

----------------------------------------------------------------------------
(* The library as a whole: each behaviour exercises one of its parts *)

Init ==
    InitRigid \/ InitCom \/ InitBuilder \/ InitTrajectory \/ InitPipeline \/ InitAspect

Next ==
    NextRigid \/ NextCom \/ NextBuilder \/ NextTrajectory \/ NextPipeline \/ NextAspect

Spec == Init /\ [][Next]_vars

====
